---- MODULE Spec2Model ----
(***************************************************************************)
(* A model of DomTal 2.0 (src/lib/DomTal.js): the tales evaluator and its  *)
(* modifiers, the WeightedList that holds the processors, the variable     *)
(* scope stack and the process()/render() tree walker with its built-in    *)
(* processors.                                                             *)
(*                                                                         *)
(* Javascript values are records [t, v]: t is the result of typeof (with   *)
(* "null" kept apart), v a string that tells the values of a type apart.   *)
(* A plain object carries its own properties in the extra field p.         *)
(***************************************************************************)
EXTENDS Integers, Sequences, FiniteSets, TLC

\* ------------------------------------------------------------------ bounds

\* Longest alternation chain handed to DomTal.tales().
MaxAlts == 3

\* Most calls of processor() and removeByName() after the script is loaded.
MaxRegistryOps == 3

\* ------------------------------------------------------- javascript values

Undef == [t |-> "undefined", v |-> ""]
Null == [t |-> "null", v |-> ""]
Num(n) == [t |-> "number", v |-> n]
Bool(b) == [t |-> "boolean", v |-> IF b THEN "true" ELSE "false"]
Str(s) == [t |-> "string", v |-> s]
Obj(props) == [t |-> "object", v |-> "{}", p |-> props]
Fn(behaviour) == [t |-> "function", v |-> behaviour]
\* An array: its elements, in order
Arr(items) == [t |-> "object", v |-> "[]", items |-> items]
\* An object whose properties were created in the order keys (what for-in sees)
ObjInOrder(keys, props) == [t |-> "object", v |-> "{}", p |-> props, keys |-> keys]
IsArray(x) == x.t = "object" /\ x.v = "[]"

NoProps == [n \in {} |-> Undef]

\* DomTal.NOTHING and DomTal.DEFAULT: two distinct empty objects, compared by ===
NOTHING == [t |-> "object", v |-> "DomTal.NOTHING"]
DEFAULT == [t |-> "object", v |-> "DomTal.DEFAULT"]

IsPlainObj(x) == x.t = "object" /\ x.v = "{}"

\* ToBoolean: what `if (x)` and `!x` see
Truthy(x) ==
    CASE x.t = "undefined" -> FALSE
      [] x.t = "null" -> FALSE
      [] x.t = "boolean" -> x.v = "true"
      [] x.t = "number" -> x.v \notin {"0", "NaN"}
      [] x.t = "string" -> x.v # ""
      [] OTHER -> TRUE

\* The outcome of a call: a returned value or a thrown error.
Ok(x) == [k |-> "ok", val |-> x, err |-> ""]
Throw(e) == [k |-> "throw", val |-> Undef, err |-> e]

\* `var v = value; ...then(v)...`: the value is computed once and named
With(value, Then(_)) == Then(value)

\* -------------------------------------------------------------------- text

Char(s, i) == SubSeq(s, i, i)

Lowers == "abcdefghijklmnopqrstuvwxyz"
Uppers == "ABCDEFGHIJKLMNOPQRSTUVWXYZ"
Digits == "0123456789"

\* The decimal digits of a number, as '' + n gives them
RECURSIVE NatStr(_)
NatStr(n) ==
    IF n < 10 THEN Char(Digits, n + 1)
    ELSE NatStr(n \div 10) \o Char(Digits, (n % 10) + 1)

\* The first position in lo..hi that has the property P (none: the position
\* after the range), and the last one (none: the position before it)
FirstWhere(lo, hi, P(_)) ==
    IF \E j \in lo..hi : P(j)
    THEN CHOOSE j \in lo..hi : P(j) /\ \A k \in lo..(j - 1) : ~P(k)
    ELSE IF lo > hi THEN lo ELSE hi + 1

LastWhere(lo, hi, P(_)) ==
    IF \E j \in lo..hi : P(j)
    THEN CHOOSE j \in lo..hi : P(j) /\ \A k \in (j + 1)..hi : ~P(k)
    ELSE IF lo > hi THEN hi ELSE lo - 1

\* The first position >= i of s that holds the character c (0 if none)
IndexIn(c, s, i) ==
    IF \E j \in i..Len(s) : Char(s, j) = c
    THEN FirstWhere(i, Len(s), LAMBDA j : Char(s, j) = c)
    ELSE 0

\* The number a string of decimal digits stands for
RECURSIVE StrNat(_)
StrNat(s) ==
    IF s = "" THEN 0
    ELSE 10 * StrNat(SubSeq(s, 1, Len(s) - 1)) + (IndexIn(Char(s, Len(s)), Digits, 1) - 1)

IsLetter(c) == IndexIn(c, Lowers, 1) > 0 \/ IndexIn(c, Uppers, 1) > 0
IsDigit(c) == IndexIn(c, Digits, 1) > 0
\* \s of the regular expressions
IsSpace(c) == c \in {" ", "\t", "\n"}
\* \w
IsWord(c) == IsLetter(c) \/ IsDigit(c) \/ c = "_"

LowerOf(c) ==
    LET u == IndexIn(c, Uppers, 1)
    IN  IF u > 0 THEN Char(Lowers, u) ELSE c

RECURSIVE ToLower(_)
ToLower(s) ==
    IF Len(s) <= 1 THEN LowerOf(s)
    ELSE ToLower(SubSeq(s, 1, Len(s) \div 2)) \o ToLower(SubSeq(s, (Len(s) \div 2) + 1, Len(s)))

\* The first position >= i of s that holds no white space (Len(s)+1 if none).
SkipSpaces(s, i) == FirstWhere(i, Len(s), LAMBDA j : ~IsSpace(Char(s, j)))

\* The last position <= i of s that holds no white space (0 if none).
SkipSpacesBack(s, i) == LastWhere(1, i, LAMBDA j : ~IsSpace(Char(s, j)))

Trim(s) == SubSeq(s, SkipSpaces(s, 1), SkipSpacesBack(s, Len(s)))

\* The first position >= i of s whose character is not in the class [\w_-].
SkipPrefixChars(s, i) ==
    FirstWhere(i, Len(s), LAMBDA j : ~(IsWord(Char(s, j)) \/ Char(s, j) = "-"))

\* /^[A-Za-z$_][A-Za-z0-9$_]*$/
AllIdentChars(s, i) == \A j \in i..Len(s) : IsWord(Char(s, j)) \/ Char(s, j) = "$"

IsIdentifier(s) ==
    /\ s # ""
    /\ ~IsDigit(Char(s, 1))
    /\ AllIdentChars(s, 1)

AllDigits(s, i) == \A j \in i..Len(s) : IsDigit(Char(s, j))

IsNumberLiteral(s) == s # "" /\ AllDigits(s, 1)

\* A single-quoted literal without a quote inside: 'text'
IsQuotedLiteral(s) ==
    /\ Len(s) >= 2
    /\ Char(s, 1) = "'"
    /\ Char(s, Len(s)) = "'"
    /\ IndexIn("'", SubSeq(s, 2, Len(s) - 1), 1) = 0

\* Two quoted literals or more with nothing between them: 'a''b'
IsLiteralRun(s) ==
    LET Q == {i \in 1..Len(s) : Char(s, i) = "'"}
    IN  /\ Cardinality(Q) >= 4
        /\ Cardinality(Q) % 2 = 0
        /\ 1 \in Q
        /\ Len(s) \in Q
        /\ IndexIn("\\", s, 1) = 0
        /\ \A i \in Q : Cardinality({j \in Q : j <= i}) % 2 = 0 /\ i < Len(s) => i + 1 \in Q

\* exp.replace(/\//g, '.')
RECURSIVE SlashesToDots(_)
SlashesToDots(s) ==
    IF Len(s) <= 1 THEN (IF s = "/" THEN "." ELSE s)
    ELSE SlashesToDots(SubSeq(s, 1, Len(s) \div 2))
             \o SlashesToDots(SubSeq(s, (Len(s) \div 2) + 1, Len(s)))

\* -------------------------------------------------------- ExpressionParser

\* A parser is its text exp and its position pos, counted from 0. A matcher
\* answers [ok, val, pos]: whether it matched (null otherwise), what it
\* returns and the position it leaves.
Matched(val, pos) == [ok |-> TRUE, val |-> val, pos |-> pos]
NoMatch(pos) == [ok |-> FALSE, val |-> "", pos |-> pos]

CharAt(exp, pos) == Char(exp, pos + 1)

\* exp.substr(pos, len): what is left of exp when it is shorter
Substr(exp, pos, len) ==
    SubSeq(exp, pos + 1, IF pos + len > Len(exp) THEN Len(exp) ELSE pos + len)

\* exp.indexOf(str, pos): -1 when str is not found
IndexOf(exp, str, pos) ==
    IF \E k \in pos..(Len(exp) - Len(str)) : SubSeq(exp, k + 1, k + Len(str)) = str
    THEN FirstWhere(pos, Len(exp) - Len(str),
                    LAMBDA k : SubSeq(exp, k + 1, k + Len(str)) = str)
    ELSE -1

\* A str() that finds nothing.
ParserStrNever(exp, pos, str) == NoMatch(pos)

\* ExpressionParser.prototype.str: str is next, after blanks only
ParserStr(exp, pos, str) ==
    LET idx == IndexOf(exp, str, pos)
    IN  IF idx = -1 THEN NoMatch(pos)
        ELSE IF \E k \in pos..(idx - 1) : CharAt(exp, k) # " " THEN NoMatch(pos)
        ELSE Matched(str, idx + Len(str))

\* The end of the run of [$\w] that starts at pos
SkipIdentChars(exp, pos) ==
    FirstWhere(pos, Len(exp) - 1,
               LAMBDA k : ~(IsWord(CharAt(exp, k)) \/ CharAt(exp, k) = "$"))

\* ExpressionParser.prototype.ident: /^\s*([A-Za-z$_][$\w]*)\s*/
ParserIdent(exp, pos) ==
    LET i == SkipSpaces(exp, pos + 1) - 1
        j == SkipIdentChars(exp, i)
    IN  IF j > i /\ ~IsDigit(CharAt(exp, i))
        THEN Matched(SubSeq(exp, i + 1, j), SkipSpaces(exp, j + 1) - 1)
        ELSE NoMatch(pos)

\* The characters a token of tales() does not run over
TokenBreaks == {"(", ")", "{", "}", "[", "]", "'", "\"", "\\", "|", ";", ":", ","}

SkipPlain(exp, pos) ==
    FirstWhere(pos, Len(exp) - 1,
               LAMBDA k : CharAt(exp, k) \in TokenBreaks \/ IsSpace(CharAt(exp, k)))

\* rex(/^([^(){}[\]'"\\|;:,\s]+|\s+|.)/): the next token, "" at the end
TokenAt(exp, pos) ==
    IF pos >= Len(exp) THEN ""
    ELSE IF IsSpace(CharAt(exp, pos))
    THEN SubSeq(exp, pos + 1, SkipSpaces(exp, pos + 1) - 1)
    ELSE IF CharAt(exp, pos) \in TokenBreaks THEN CharAt(exp, pos)
    ELSE SubSeq(exp, pos + 1, SkipPlain(exp, pos))

\* /^[\('"$\w]/.test(token)
StartsStatement(token) ==
    Char(token, 1) \in {"(", "'", "\"", "$"} \/ IsWord(Char(token, 1))

\* /\w/.test(token)
HasWord(token) == \E i \in 1..Len(token) : IsWord(Char(token, i))

\* s.replace(/\s+/, ''): the first run of white space goes, wherever it is
RemoveFirstSpaces(s) ==
    LET S == {i \in 1..Len(s) : IsSpace(Char(s, i))}
    IN  IF S = {} THEN s
        ELSE LET first == CHOOSE i \in S : \A j \in S : i <= j
             IN  SubSeq(s, 1, first - 1) \o SubSeq(s, SkipSpaces(s, first), Len(s))

\* s.replace(/\s+$/, '')
TrimRight(s) == SubSeq(s, 1, SkipSpacesBack(s, Len(s)))

\* The statements after the loop without the test of an empty result.
TalesFinishAny(sc, pos0) ==
    [ok |-> TRUE,
     val |-> IF sc.cur # "" THEN Append(sc.result, TrimRight(sc.cur)) ELSE sc.result,
     pos |-> sc.pos]

\* The statements of tales() after its loop: the last expression joins the
\* results; no result at all is an error, and the position is restored.
TalesFinish(sc, pos0) ==
    LET result == IF sc.cur # "" THEN Append(sc.result, TrimRight(sc.cur)) ELSE sc.result
    IN  IF result = <<>>
        THEN [ok |-> FALSE, val |-> <<>>, pos |-> pos0]
        ELSE [ok |-> TRUE, val |-> result, pos |-> sc.pos]

\* What the switch of tales() makes of a token read at sc.pos: the token as it
\* is added, the position, eos, quoted, balanced, and what follows ("push",
\* "continue", or "null" when the token was set to null).
TalesSwitch(exp, sc, token) ==
    LET c == Char(token, 1)
        pos1 == sc.pos + Len(token)
        free == sc.quoted = "" /\ sc.balanced = 0
        same == [token |-> token, pos |-> pos1, eos |-> sc.eos, quoted |-> sc.quoted,
                 balanced |-> sc.balanced, then |-> "push"]
    IN  CASE c \in {"(", "{", "["} ->
                [same EXCEPT !.eos = 0,
                             !.balanced = IF sc.quoted = "" THEN @ + 1 ELSE @]
          [] c \in {")", "}", "]"} ->
                [same EXCEPT !.eos = 1,
                             !.balanced = IF sc.quoted = "" THEN @ - 1 ELSE @]
          [] c = "|" ->
                IF ~free THEN [same EXCEPT !.eos = 0]
                ELSE With(ParserStr(exp, pos1, "|"), LAMBDA pipe :
                        IF pipe.ok
                        THEN [same EXCEPT !.eos = 0, !.token = "||", !.pos = pipe.pos]
                        ELSE [same EXCEPT !.eos = 0, !.then = "continue"])
          [] c = "\\" ->
                [same EXCEPT !.eos = 0,
                             !.token = token \o Substr(exp, pos1, 1),
                             !.pos = IF pos1 < Len(exp) THEN pos1 + 1 ELSE pos1]
          [] c \in {"'", "\""} ->
                IF sc.quoted = "" THEN [same EXCEPT !.eos = 0, !.quoted = token]
                ELSE IF sc.quoted = token THEN [same EXCEPT !.eos = 1, !.quoted = ""]
                ELSE [same EXCEPT !.eos = 0]
          [] c \in {";", ","} ->
                IF free THEN [same EXCEPT !.eos = 0, !.pos = pos1 - 1, !.then = "null"]
                ELSE [same EXCEPT !.eos = 0]
          [] c \in {" ", "\t"} ->
                IF sc.cur = "" THEN [same EXCEPT !.then = "continue"]
                ELSE [same EXCEPT !.eos = IF sc.eos > 0 THEN 2 ELSE sc.eos]
          [] OTHER ->
                [same EXCEPT !.eos = IF HasWord(token) /\ token # "new" THEN 1 ELSE 0]

\* The loop of ExpressionParser.prototype.tales from the state sc of the scan:
\* pos, eos, quoted ("" for false), balanced, cur (the tokens of the current
\* expression, joined) and result.
RECURSIVE TalesScan(_, _, _)
TalesScan(exp, sc, pos0) ==
    With(TokenAt(exp, sc.pos), LAMBDA token :
        IF token = ""
        THEN IF sc.quoted # "" \/ sc.balanced # 0
             THEN [ok |-> FALSE, val |-> <<>>, pos |-> pos0]
             ELSE TalesFinish(sc, pos0)
        ELSE IF sc.quoted = "" /\ sc.balanced = 0 /\ sc.eos > 1 /\ StartsStatement(token)
        THEN TalesFinish(sc, pos0)
        ELSE With(TalesSwitch(exp, sc, token), LAMBDA sw :
            LET next == [pos |-> sw.pos, eos |-> sw.eos, quoted |-> sw.quoted,
                         balanced |-> sw.balanced, cur |-> sc.cur, result |-> sc.result]
            IN  CASE sw.then = "continue" /\ Char(token, 1) = "|" ->
                        TalesScan(exp,
                                  [next EXCEPT !.cur = "",
                                               !.result = Append(@, RemoveFirstSpaces(sc.cur))],
                                  pos0)
                  [] sw.then = "continue" /\ Char(token, 1) # "|" ->
                        TalesScan(exp, next, pos0)
                  [] sw.then = "null" ->
                        TalesFinish(next, pos0)
                  [] sw.then = "push" /\ sw.eos > 0 /\ sw.balanced < 0 ->
                        TalesFinish([next EXCEPT !.pos = sw.pos - Len(sw.token)], pos0)
                  [] OTHER ->
                        TalesScan(exp, [next EXCEPT !.cur = @ \o sw.token], pos0)))

\* ExpressionParser.prototype.tales: [ok, val, pos], val the alternatives
ParserTales(exp, pos) ==
    TalesScan(exp,
              [pos |-> pos, eos |-> 0, quoted |-> "", balanced |-> 0,
               cur |-> "", result |-> <<>>],
              pos)

\* ------------------------------------------------------ variable scope stack

\* `name in frame`: a TypeError on a primitive, own properties on a plain object
InThrows(frame) == frame.t \in {"undefined", "null", "boolean", "number", "string"}
HasName(frame, name) == IsPlainObj(frame) /\ name \in DOMAIN frame.p

\* A lookup that takes the outermost frame that has the name.
GetFromOutermost(stack, idx, name, def) ==
    LET S == {i \in 1..idx : HasName(stack[i], name)}
    IN  IF S = {} THEN Ok(def)
        ELSE Ok(stack[CHOOSE i \in S : \A j \in S : i <= j].p[name])

\* DomTal.prototype.get: the nearest frame, from the innermost one, that has
\* the name; def when no frame has it.
RECURSIVE GetFrom(_, _, _, _)
GetFrom(stack, idx, name, def) ==
    IF idx = 0 THEN Ok(def)
    ELSE IF InThrows(stack[idx]) THEN Throw("TypeError: in " \o name)
    ELSE IF HasName(stack[idx], name) THEN Ok(stack[idx].p[name])
    ELSE GetFrom(stack, idx - 1, name, def)

Get(stack, name, def) == GetFrom(stack, Len(stack), name, def)

\* DomTal.prototype.set(name, value): the branch taken with two arguments
SetNamed(stack, name, value) == [stack EXCEPT ![Len(stack)] = value]

\* DomTal.prototype.set(frame): the branch taken with one argument
SetFrame(stack, frame) == [stack EXCEPT ![Len(stack)] = frame]

\* {...frame, name: value}: an assignment frame[name] = value
WithProp(frame, name, value) ==
    Obj([n \in DOMAIN frame.p \cup {name} |-> IF n = name THEN value ELSE frame.p[n]])

\* DomTal.prototype.env: the global object, which holds none of the names used
Env(name) == Undef

\* ---------------------------------------------------------- tales evaluator

\* DomTal.prototype.modifiers
ModifierNames ==
    {"path", "exists", "not", "string", "js", "structure", "h", "u", "uc",
     "bool", "int", "float", "tpl"}

\* The keywords the js modifier leaves alone
JsKeywords ==
    {"break", "case", "catch", "const", "continue", "debugger", "default",
     "delete", "do", "else", "enum", "false", "finally", "for", "function",
     "if", "in", "instanceof", "new", "null", "return", "switch", "this",
     "throw", "true", "try", "typeof", "var", "void", "while", "with"}

\* /^\s*default\s*$/ and /^\s*nothing\s*$/ : the tests of DomTal.prototype.tales
KeywordMatches(exp, kw) == Trim(exp) = kw

\* /^\s*([\w_-]+)\s*:/ : [found, name, len] with len the length of the match
PrefixMatch(exp) ==
    LET i == SkipSpaces(exp, 1)
        j == SkipPrefixChars(exp, i)
        k == SkipSpaces(exp, j)
    IN  IF j > i /\ k <= Len(exp) /\ Char(exp, k) = ":"
        THEN [found |-> TRUE, name |-> SubSeq(exp, i, j - 1), len |-> k]
        ELSE [found |-> FALSE, name |-> "", len |-> 0]

\* `if (result) break;` of the loop of DomTal.prototype.tales
StopsChain(result) == Truthy(result)

\* The value of `base.prop`
Member(base, prop, exp) ==
    IF base.t \in {"undefined", "null"} THEN Throw("TypeError: " \o exp)
    ELSE IF HasName(base, prop) THEN Ok(base.p[prop])
    ELSE IF IsArray(base) /\ prop = "length" THEN Ok(Num(NatStr(Len(base.items))))
    ELSE Ok(Undef)

\* The value of `base.a.b...`, rest being the names after the first dot
RECURSIVE MemberChain(_, _, _)
MemberChain(base, rest, exp) ==
    With(IndexIn(".", rest, 1), LAMBDA dot :
        IF dot = 0 THEN Member(base, rest, exp)
        ELSE With(Member(base, SubSeq(rest, 1, dot - 1), exp), LAMBDA m :
                IF m.k = "throw" THEN m
                ELSE MemberChain(m.val, SubSeq(rest, dot + 1, Len(rest)), exp)))

\* name.name...: identifiers joined by dots
RECURSIVE IsDottedNames(_)
IsDottedNames(t) ==
    With(IndexIn(".", t, 1), LAMBDA dot :
        IF dot = 0 THEN IsIdentifier(t)
        ELSE IsIdentifier(SubSeq(t, 1, dot - 1)) /\ IsDottedNames(SubSeq(t, dot + 1, Len(t))))

\* modifiers.js on the expressions of the model: a literal (a number, a quoted
\* string, true, false, null), this, a variable, or variable.property; and
\* quoted strings put side by side, which new Function() does not compile.
\* Anything else is outside the model (the CASE has no OTHER on purpose).
JsEval(exp, stack) ==
    LET t == Trim(exp)
        dot == IndexIn(".", t, 1)
    IN  CASE t = "" -> Throw("SyntaxError: " \o exp)
          [] t = "true" -> Ok(Bool(TRUE))
          [] t = "false" -> Ok(Bool(FALSE))
          [] t = "null" -> Ok(Null)
          [] t = "this" -> Ok(stack[1])
          [] t \in JsKeywords \ {"true", "false", "null", "this"} ->
                Throw("SyntaxError: " \o exp)
          [] IsIdentifier(t) /\ t \notin JsKeywords -> Get(stack, t, Env(t))
          [] IsNumberLiteral(t) -> Ok(Num(t))
          [] IsQuotedLiteral(t) -> Ok(Str(SubSeq(t, 2, Len(t) - 1)))
          [] IsLiteralRun(t) -> Throw("SyntaxError: Unexpected string")
          [] /\ dot > 1
             /\ SubSeq(t, 1, dot - 1) \notin JsKeywords
             /\ IsDottedNames(t) ->
                LET base == Get(stack, SubSeq(t, 1, dot - 1), Env(t))
                IN  IF base.k = "throw" THEN base
                    ELSE MemberChain(base.val, SubSeq(t, dot + 1, Len(t)), exp)

RECURSIVE TalesLoop(_, _, _, _, _)

\* DomTal.prototype.tales
Tales(exps, stack) ==
    IF exps = <<>> THEN Throw("Empty tales expression")
    ELSE TalesLoop(exps, 1, Undef, "", stack)

\* modifiers.bool, after the value is known
BoolCast(value) ==
    IF value.t = "string" /\ IsNumberLiteral(value.v)
    THEN Bool(\E i \in 1..Len(value.v) : Char(value.v, i) # "0")
    ELSE IF value.t = "string" /\ ToLower(value.v) \in {"no", "off", "false"}
    THEN Bool(FALSE)
    ELSE Bool(Truthy(value))

\* mod.call(this, exp) for the modifiers of the model: path, exists, not,
\* string, js and bool.
CallModifier(name, exp, stack) ==
    CASE name = "js" -> JsEval(exp, stack)
      [] name = "path" -> Tales(<<SlashesToDots(exp)>>, stack)
      [] name = "exists" -> Ok(Bool(Tales(<<exp>>, stack).k = "ok"))
      [] name = "not" ->
            LET r == Tales(<<exp>>, stack)
            IN  IF r.k = "throw" THEN r ELSE Ok(Bool(~Truthy(r.val)))
      [] name = "string" -> Throw("The string: prefix has been deprecated")
      [] name = "bool" ->
            LET r == Tales(<<exp>>, stack)
            IN  IF r.k = "throw" THEN r ELSE Ok(BoolCast(r.val))

\* An outcome with the index of the alternative that ended the evaluation
\* (Len(exps) + 1 when the loop ran to its end).
At(o, i) == [k |-> o.k, val |-> o.val, err |-> o.err, at |-> i]

\* The statements after the loop: the result, or the recorded error, or the
\* error of an undefined value.
TalesEnd(result, error) ==
    IF result = Undef
    THEN IF error # "" THEN Throw(error)
         ELSE Throw("resolved to an undefined value")
    ELSE Ok(result)

\* The unknown modifier taken for a modifier that failed: the error is
\* recorded and the next alternative is evaluated.
UnknownModifierRecorded(name, exps, i, result, error, stack) ==
    TalesLoop(exps, i + 1, result, "Unknown tales modifier " \o name, stack)

\* `if (!mod) throw new Error('Unknown tales modifier ...')`
UnknownModifier(name, exps, i, result, error, stack) ==
    At(Throw("Unknown tales modifier " \o name), i)

\* One turn of the loop of DomTal.prototype.tales, and the turns after it.
TalesLoop(exps, i, result, error, stack) ==
    IF i > Len(exps) THEN At(TalesEnd(result, error), i)
    ELSE IF KeywordMatches(exps[i], "default") THEN At(Ok(DEFAULT), i)
    ELSE IF KeywordMatches(exps[i], "nothing") THEN At(Ok(NOTHING), i)
    ELSE With(PrefixMatch(exps[i]), LAMBDA m :
        IF m.found /\ m.name \notin ModifierNames
        THEN UnknownModifier(m.name, exps, i, result, error, stack)
        ELSE With(IF m.found
                  THEN CallModifier(m.name, SubSeq(exps[i], m.len + 1, Len(exps[i])), stack)
                  ELSE CallModifier("js", exps[i], stack),
                  LAMBDA r :
                    IF r.k = "throw"
                    THEN TalesLoop(exps, i + 1, result, r.err, stack)
                    ELSE IF StopsChain(r.val)
                    THEN At(TalesEnd(r.val, error), i)
                    ELSE TalesLoop(exps, i + 1, r.val, error, stack)))

\* ------------------------------------------------------------ WeightedList

\* DomTal.PRIO
PRIO_MAX == 0
PRIO_VERYHIGH == 100
PRIO_HIGH == 200
PRIO_ABOVE == 300
PRIO_AVERAGE == 400
PRIO_LOW == 600
PRIO_VERYLOW == 700
PRIO_MIN == 1000

\* A javascript array is a sequence read with indexes from 0.
InRange(seq, k) == k \in 0..(Len(seq) - 1)
JsAt(seq, k) == seq[k + 1]

\* array.splice(k, 1): nothing goes when k is past the end
SpliceOut(seq, k) ==
    IF InRange(seq, k)
    THEN SubSeq(seq, 1, k) \o SubSeq(seq, k + 2, Len(seq))
    ELSE seq

\* array.splice(k, 0, x)
SpliceIn(seq, k, x) == SubSeq(seq, 1, k) \o <<x>> \o SubSeq(seq, k + 1, Len(seq))

\* WeightedList.prototype.clear
EmptyList == [items |-> <<>>, weights |-> <<>>, map |-> <<>>]

\* The first index whose weight is greater than weight (the length if none)
RECURSIVE FirstHeavier(_, _, _)
FirstHeavier(weights, weight, i) ==
    IF i < Len(weights) /\ ~(JsAt(weights, i) > weight)
    THEN FirstHeavier(weights, weight, i + 1)
    ELSE i

\* WeightedList.prototype.add
ListAdd(list, itm, weight) ==
    LET i == FirstHeavier(list.weights, weight, 0)
    IN  [items |-> Append(list.items, itm),
         weights |-> SpliceIn(list.weights, i, weight),
         map |-> SpliceIn(list.map, i, Len(list.items))]

\* The index of items that the splice of removeByName is given: map[1], and
\* 0 when map[1] is undefined.
SplicedItem(list, i) == IF InRange(list.map, 1) THEN JsAt(list.map, 1) ELSE 0

\* WeightedList.prototype.removeByName, from index i on: the list, and whether
\* reading .procname of an undefined item threw a TypeError.
RECURSIVE RemoveFrom(_, _, _)
RemoveFrom(list, name, i) ==
    IF i >= Len(list.map) THEN [list |-> list, threw |-> FALSE]
    ELSE IF ~InRange(list.items, JsAt(list.map, i))
    THEN [list |-> list, threw |-> TRUE]
    ELSE IF JsAt(list.items, JsAt(list.map, i)).procname = name
    THEN [list |-> [items |-> SpliceOut(list.items, SplicedItem(list, i)),
                    weights |-> SpliceOut(list.weights, i),
                    map |-> SpliceOut(list.map, i)],
          threw |-> FALSE]
    ELSE RemoveFrom(list, name, i + 1)

ListRemoveByName(list, name) == RemoveFrom(list, name, 0)

\* A processor: the function object with the procname and proctype that
\* DomTal.prototype.processor gives it. gen tells the function objects apart
\* and prio records the priority it was registered with.
Processor(name, type, priority, gen) ==
    [procname |-> name, proctype |-> type, prio |-> priority, gen |-> gen]

\* DomTal.prototype.processor(name, priority, type, fn)
RegisterProcessor(list, name, priority, type, gen) ==
    LET removed == ListRemoveByName(list, name)
    IN  IF removed.threw THEN removed
        ELSE [list |-> ListAdd(removed.list, Processor(name, type, priority, gen), priority),
              threw |-> FALSE]

\* The processors registered when the script is loaded, in the order of the
\* DomTal.prototype.processor(...) calls.
Builtins ==
    <<Processor("define", "default", PRIO_MAX, 1),
      Processor("condition", "replace", PRIO_VERYHIGH, 2),
      Processor("repeat", "replace", PRIO_HIGH, 3),
      Processor("replace", "replace", PRIO_ABOVE, 4),
      Processor("content", "content", PRIO_AVERAGE, 5),
      Processor("attributes", "default", PRIO_LOW, 6),
      Processor("omit-tag", "replace", PRIO_VERYLOW, 7),
      Processor("template", "replace", PRIO_AVERAGE, 8),
      Processor("css", "default", PRIO_AVERAGE, 9)>>

RECURSIVE RegisterAll(_, _, _)
RegisterAll(list, procs, i) ==
    IF i > Len(procs) THEN list
    ELSE RegisterAll(
            RegisterProcessor(list, procs[i].procname, procs[i].prio,
                              procs[i].proctype, procs[i].gen).list,
            procs, i + 1)

\* DomTal.prototype.processors once the script is loaded
BuiltinList == RegisterAll(EmptyList, Builtins, 1)

\* The loop of render over processors.until(...) from index i on, for a node
\* with the processor attributes attrs (in the order of their declaration)
\* of which attrsNo are not consumed yet, every processor returning true:
\* the processors invoked, and whether an undefined item threw a TypeError.
RECURSIVE InvokeFrom(_, _, _, _, _)
InvokeFrom(list, attrs, attrsNo, i, invoked) ==
    IF i >= Len(list.map) THEN [invoked |-> invoked, threw |-> FALSE]
    ELSE IF ~InRange(list.items, JsAt(list.map, i))
    THEN [invoked |-> invoked, threw |-> TRUE]
    ELSE
        LET processor == JsAt(list.items, JsAt(list.map, i))
        IN  IF \A a \in 1..Len(attrs) : attrs[a] # processor.procname
            THEN InvokeFrom(list, attrs, attrsNo, i + 1, invoked)
            ELSE IF attrsNo - 1 < 1
            THEN [invoked |-> Append(invoked, processor), threw |-> FALSE]
            ELSE InvokeFrom(list, attrs, attrsNo - 1, i + 1, Append(invoked, processor))

Invoke(list, attrs) == InvokeFrom(list, attrs, Len(attrs), 0, <<>>)

\* ------------------------------------------------------------------- state

VARIABLES
    stack,      \* this.stack: the scope frames, outermost first
    exps,       \* the alternation chain given to tales()
    talesOut,   \* what that call did: NotRun before it, then an outcome
    parser,     \* an ExpressionParser: its text (exp) and its position (pos)
    parsed,     \* what parser.tales() returned, and the position it was called at
    processors, \* DomTal.prototype.processors: a WeightedList
    regs,       \* the processors that were registered and not removed since
    nextGen,    \* the next function object to register
    regOps,     \* the calls of processor() and removeByName() so far
    nodeAttrs,  \* the processor attributes of the node rendered last
    invoked,    \* what render invoked on it: [invoked, threw]
    lastSet,    \* the last call of set(): its arguments and the stack before
    tpl,        \* this.tpl: the template loaded
    dom,        \* the result of run(): the copy of the template, processed
    walkErr,    \* the error run() threw ("" if none)
    walkLog,    \* what the walk did, in the order it did it
    uniqueId,   \* the counter of the markers
    bindings    \* the dependency tracker, and the bound renderers made so far

talesVars == <<exps, talesOut, parser, parsed>>
registryVars == <<processors, regs, nextGen, regOps, nodeAttrs, invoked>>
walkVars == <<tpl, dom, walkErr, walkLog, uniqueId>>
vars == <<stack, talesVars, registryVars, lastSet, walkVars, bindings>>

NotRun == [k |-> "none", val |-> Undef, err |-> "", at |-> 0]

\* --------------------------------------------------------------- the DOM

Element(tag, attributes, childNodes) ==
    [nodeType |-> 1, tag |-> tag, attributes |-> attributes, childNodes |-> childNodes]
TextNode(nodeValue) == [nodeType |-> 3, nodeValue |-> nodeValue]
Comment(nodeValue) == [nodeType |-> 8, nodeValue |-> nodeValue]
DocumentFragment(childNodes) == [nodeType |-> 11, childNodes |-> childNodes]
Attr(name, value) == [name |-> name, value |-> value]

\* A document fragment held as the value of a variable
FragmentValue(childNodes) == [t |-> "object", v |-> "fragment", childNodes |-> childNodes]

\* What Array.prototype.join makes of a value that interpolate pushes
ToStr(value) ==
    CASE value.t \in {"number", "boolean", "string"} -> value.v
      [] value.t = "function" -> "function () { " \o value.v \o " }"

\* value(): a function of the data returns what its name tells, or throws
CallFn(value) ==
    CASE value.v = "true" -> Ok(Bool(TRUE))
      [] value.v = "false" -> Ok(Bool(FALSE))
      [] value.v = "throw" -> Throw("Error: thrown by the function")

\* The text of a node in innerHTML: & < and > are escaped
RECURSIVE EscapeText(_)
EscapeText(s) ==
    IF Len(s) <= 1
    THEN (CASE s = "&" -> "&amp;"
            [] s = "<" -> "&lt;"
            [] s = ">" -> "&gt;"
            [] OTHER -> s)
    ELSE EscapeText(SubSeq(s, 1, Len(s) \div 2))
             \o EscapeText(SubSeq(s, (Len(s) \div 2) + 1, Len(s)))

\* The value of an attribute in innerHTML: & and " are escaped
RECURSIVE EscapeAttr(_)
EscapeAttr(s) ==
    IF Len(s) <= 1
    THEN (CASE s = "&" -> "&amp;"
            [] s = "\"" -> "&quot;"
            [] OTHER -> s)
    ELSE EscapeAttr(SubSeq(s, 1, Len(s) \div 2))
             \o EscapeAttr(SubSeq(s, (Len(s) \div 2) + 1, Len(s)))

RECURSIVE InnerHTML(_)
RECURSIVE AttrsHTML(_)
AttrsHTML(attributes) ==
    IF attributes = <<>> THEN ""
    ELSE " " \o Head(attributes).name \o "=\"" \o EscapeAttr(Head(attributes).value)
             \o "\"" \o AttrsHTML(Tail(attributes))

\* div.innerHTML once the nodes are the children of div
InnerHTML(nodes) ==
    IF nodes = <<>> THEN ""
    ELSE LET node == Head(nodes)
         IN  (CASE node.nodeType = 3 -> EscapeText(node.nodeValue)
                [] node.nodeType = 8 -> "<!--" \o node.nodeValue \o "-->"
                [] node.nodeType = 1 ->
                        "<" \o node.tag \o AttrsHTML(node.attributes) \o ">"
                            \o InnerHTML(node.childNodes) \o "</" \o node.tag \o ">")
             \o InnerHTML(Tail(nodes))

\* node.getAttributeNode(name): its place in node.attributes, 0 when absent
AttrIndex(attributes, name) ==
    LET S == {i \in 1..Len(attributes) : attributes[i].name = name}
    IN  IF S = {} THEN 0 ELSE CHOOSE i \in S : \A j \in S : i <= j

\* Every attribute removed, processed or not.
RemoveAttrsAll(attributes, foundAttrs) == <<>>

\* node.removeAttributeNode(anode) for every attribute of foundAttrs
RemoveAttrs(attributes, foundAttrs) ==
    SelectSeq(attributes, LAMBDA a : \A i \in 1..Len(foundAttrs) : foundAttrs[i] # a.name)

\* No marker: a removed node leaves nothing, a fragment its nodes only.
InsertMarkerBare(ident, processor, nodes) == nodes

\* insertMarker(processor, node, fragment): what takes the place of the node,
\* one MARK comment, or the nodes of the fragment between BEGIN and END
InsertMarker(ident, processor, nodes) ==
    IF nodes = <<>>
    THEN <<Comment("DOMTAL:MARK id=" \o NatStr(ident) \o " processor=" \o processor)>>
    ELSE <<Comment("DOMTAL:BEGIN id=" \o NatStr(ident) \o " processor=" \o processor)>>
            \o nodes
            \o <<Comment("DOMTAL:END id=" \o NatStr(ident) \o " processor=" \o processor)>>

\* ------------------------------------------------------------ interpolate

\* rex(/^[^$]+/): the end of the run of characters other than $
SkipNonDollar(txt, pos) == FirstWhere(pos, Len(txt) - 1, LAMBDA k : CharAt(txt, k) = "$")

\* Two characters read of which the second one only is pushed.
ConsumedSecond(txt, pos) == Substr(txt, pos + 1, 1)

\* out.push(parser.consume(2)): the two characters at pos, pushed as they are
Consumed(txt, pos) == Substr(txt, pos, 2)

\* What interpolate does with the value of ${...}, the parser being at pos
\* after it: the text to push, or nothing, or an error
RECURSIVE InterpolateFrom(_, _, _, _)
InterpolateValue(txt, pos, out, scope, value) ==
    IF value.k = "throw" THEN Throw(value.err)
    ELSE IF value.val = NOTHING \/ value.val.t = "undefined"
    THEN InterpolateFrom(txt, pos, out, scope)
    ELSE IF value.val.t \in {"object", "null"}
    THEN IF value.val.v = "fragment"
         THEN InterpolateFrom(txt, pos, out \o InnerHTML(value.val.childNodes), scope)
         ELSE Throw("TypeError: value.cloneNode is not a function")
    ELSE InterpolateFrom(txt, pos, out \o ToStr(value.val), scope)

\* The loop of DomTal.prototype.interpolate from pos on, out being the text
\* gathered so far: an outcome, the interpolated text when it is ok.
InterpolateFrom(txt, pos, out, scope) ==
    IF pos >= Len(txt) THEN Ok(Str(out))
    ELSE LET p1 == SkipNonDollar(txt, pos)
             open == ParserStr(txt, p1, "${")
             tales == ParserTales(txt, open.pos)
         IN  CASE ~open.ok ->
                    InterpolateFrom(txt, p1 + Len(Substr(txt, p1, 2)),
                                    out \o SubSeq(txt, pos + 1, p1) \o Consumed(txt, p1),
                                    scope)
               [] open.ok /\ ~tales.ok -> Throw("Invalid tales expression " \o txt)
               [] OTHER ->
                    InterpolateValue(txt, ParserStr(txt, tales.pos, "}").pos,
                                     out \o SubSeq(txt, pos + 1, p1), scope,
                                     Tales(tales.val, scope))

\* DomTal.prototype.interpolate
Interpolate(txt, scope) == InterpolateFrom(txt, 0, "", scope)

\* ------------------------------------------------------------- tree walker

\* The walk threads w through its calls: the scope stack, the counter of the
\* markers, and the log, which records what was done in the order it was
\* done. A node is told by its path, the positions from the root of the
\* template down to it.
Logged(w, entry) == [w EXCEPT !.log = Append(@, entry)]

\* data[def] = value on the frame idx of the stack, in strict mode
AssignProp(scope, idx, def, value) ==
    CASE IsPlainObj(scope[idx]) ->
            [stack |-> [scope EXCEPT ![idx] = WithProp(@, def, value)], err |-> ""]
      [] InThrows(scope[idx]) ->
            [stack |-> scope, err |-> "TypeError: cannot create property " \o def]

\* for (k in value) data[k] = value[k]: the own properties of a plain object
RECURSIVE AssignAll(_, _, _, _)
AssignAll(scope, idx, value, names) ==
    IF names = {} THEN [stack |-> scope, err |-> ""]
    ELSE LET k == CHOOSE n \in names : TRUE
             one == AssignProp(scope, idx, k, value.p[k])
         IN  IF one.err # "" THEN one
             ELSE AssignAll(one.stack, idx, value, names \ {k})

\* What a processor answers: ret is what it returns ("true", "false",
\* "null", "undefined"), node the node as it leaves it, w the state, err the
\* error it threw ("" if none).
Returned(ret, node, w) == [ret |-> ret, node |-> node, w |-> w, err |-> ""]
\* A processor that returns a node or a fragment: value is what it returns
ReturnedNode(value, node, w) ==
    [ret |-> "node", value |-> value, node |-> node, w |-> w, err |-> ""]
Thrown(err, node, w) == [ret |-> "undefined", node |-> node, w |-> w, err |-> err]

RECURSIVE Process(_, _, _, _)
RECURSIVE Render(_, _, _, _)
RECURSIVE DefineFrom(_, _, _, _, _)

\* `exp.ident() || exp.str('.')`
IdentOrDot(exp, pos) ==
    With(ParserIdent(exp, pos), LAMBDA ident :
        IF ident.ok THEN ident ELSE ParserStr(exp, pos, "."))

\* The define processor once the value is known: the assignment to the frame
\* data of the stack, and the next definition if a semicolon follows
DefineBind(exp, def, data, pos, value, node, w, path) ==
    IF def = "." /\ value.t \notin {"object", "null"}
    THEN Thrown("Unable to extract variables from a non object resolved from expression "
                    \o exp, node, w)
    ELSE With(IF def # "." THEN AssignProp(w.stack, data, def, value)
              ELSE IF IsPlainObj(value) THEN AssignAll(w.stack, data, value, DOMAIN value.p)
              ELSE [stack |-> w.stack, err |-> ""],
              LAMBDA assigned :
        IF assigned.err # "" THEN Thrown(assigned.err, node, w)
        ELSE With(Logged([w EXCEPT !.stack = assigned.stack],
                         [kind |-> "define", path |-> path, global |-> data = 1,
                          name |-> def, value |-> value]),
                  LAMBDA w1 :
             With(ParserStr(exp, pos, ";"), LAMBDA semi :
                IF semi.ok THEN DefineFrom(exp, semi.pos, node, w1, path)
                ELSE Returned("true", node, w1))))

\* The define processor once the name def and the frame data are known: the
\* tales expression, its value, and the children of the node when the value
\* is the default
DefineValue(exp, def, data, node, w, path) ==
    IF ~def.ok
    THEN Thrown("Expected an identifier at " \o NatStr(def.pos) \o " in " \o exp, node, w)
    ELSE With(ParserTales(exp, ParserStr(exp, ParserStr(exp, def.pos, ":").pos, "=").pos),
              LAMBDA tales :
         With(IF tales.ok THEN Tales(tales.val, w.stack) ELSE Ok(DEFAULT), LAMBDA value :
            IF value.k = "throw" THEN Thrown(value.err, node, w)
            ELSE IF value.val = DEFAULT
            THEN With(Process(DocumentFragment(node.childNodes), FALSE, w, path),
                      LAMBDA captured :
                    IF captured.err # ""
                    THEN Thrown(captured.err, [node EXCEPT !.childNodes = <<>>], captured.w)
                    ELSE DefineBind(exp, def.val, data, tales.pos,
                                    FragmentValue(captured.nodes[1].childNodes),
                                    [node EXCEPT !.childNodes = <<>>], captured.w, path))
            ELSE IF value.val = NOTHING
            THEN DefineFrom(exp, tales.pos, node, w, path)
            ELSE DefineBind(exp, def.val, data, tales.pos, value.val, node, w, path)))

\* The loop of the define processor, the parser being at pos: data is the
\* place in the stack of the frame written, 1 after the word global
DefineFrom(exp, pos, node, w, path) ==
    With(IdentOrDot(exp, pos), LAMBDA first :
        IF first.ok /\ first.val = "global"
        THEN DefineValue(exp, IdentOrDot(exp, first.pos), 1, node, w, path)
        ELSE DefineValue(exp, first, Len(w.stack), node, w, path))

\* The processor define
Define(node, exp, w, path) == DefineFrom(exp, 0, node, w, path)

\* A condition that lets the error of its expression through.
ConditionValueUncaught(evaluated, node, w) ==
    IF evaluated.k = "throw" THEN Thrown(evaluated.err, node, w)
    ELSE Returned(IF Truthy(evaluated.val) THEN "true" ELSE "null", node, w)

\* The processor condition once its expression is evaluated: a thrown error
\* makes the value false, a function is called, and the value decides
ConditionValue(evaluated, node, w) ==
    LET value == IF evaluated.k = "throw" THEN Bool(FALSE) ELSE evaluated.val
        called == IF value.t # "function" THEN value
                  ELSE IF CallFn(value).k = "throw" THEN Bool(FALSE)
                  ELSE Bool(Truthy(CallFn(value).val))
    IN  Returned(IF Truthy(called) THEN "true" ELSE "null", node, w)

\* The processor condition
Condition(node, exp, w, path) ==
    With(ParserTales(exp, 0), LAMBDA tales :
        IF tales.ok THEN ConditionValue(Tales(tales.val, w.stack), node, w)
        ELSE ConditionValue(Ok(Undef), node, w))

\* node.domtal_repeat = true on a clone, and `delete node.domtal_repeat`
InLoop(node) ==
    [nodeType |-> 1, tag |-> node.tag, attributes |-> node.attributes,
     childNodes |-> node.childNodes, domtal_repeat |-> TRUE]
IsInLoop(node) == "domtal_repeat" \in DOMAIN node
OutOfLoop(node) == Element(node.tag, node.attributes, node.childNodes)

\* The clone k of the node at path is told by the position -(k + 1) under it,
\* which no child has.
ClonePath(path, k) == Append(path, 0 - (k + 1))

\* The names for-in visits on a plain object, in order
KeysOf(value) ==
    CASE "keys" \in DOMAIN value -> value.keys
      [] DOMAIN value.p = {} -> <<>>
      [] Cardinality(DOMAIN value.p) = 1 -> <<CHOOSE n \in DOMAIN value.p : TRUE>>

\* The preprocessing of the value by the repeat processor: the pairs
\* [key, value] pushed on values, or the TypeError of `'each' in value`
RepeatValues(value) ==
    CASE IsArray(value) ->
            Ok([i \in 1..Len(value.items) |->
                    [key |-> Num(NatStr(i - 1)), val |-> value.items[i]]])
      [] value.t \in {"undefined", "null", "boolean", "number", "string"} ->
            Throw("TypeError: cannot use 'in' operator to search for 'each'")
      [] IsPlainObj(value) /\ ~HasName(value, "each") ->
            Ok([i \in 1..Len(KeysOf(value)) |->
                    [key |-> Str(KeysOf(value)[i]), val |-> value.p[KeysOf(value)[i]]]])
      [] value.t = "function" \/ value \in {NOTHING, DEFAULT} -> Ok(<<>>)

\* meta = { index: 0, number: 1, odd: false, even: true, start: true,
\*          end: len === 0, length: len }
RepeatMeta(len) ==
    Obj([n \in {"index", "number", "odd", "even", "start", "end", "length"} |->
            CASE n = "index" -> Num("0")
              [] n = "number" -> Num("1")
              [] n = "odd" -> Bool(FALSE)
              [] n = "even" -> Bool(TRUE)
              [] n = "start" -> Bool(TRUE)
              [] n = "end" -> Bool(len = 0)
              [] n = "length" -> Num(NatStr(len))])

\* Meta information that is never updated.
RepeatNextStuck(meta, len) == meta

\* The update of the meta information after a clone is processed
RepeatNext(meta, len) ==
    Obj([n \in DOMAIN meta.p |->
            CASE n = "index" -> Num(NatStr(StrNat(meta.p.index.v) + 1))
              [] n = "number" -> Num(NatStr(StrNat(meta.p.number.v) + 1))
              [] n = "odd" -> Bool(~Truthy(meta.p.odd))
              [] n = "even" -> Bool(~Truthy(meta.p.even))
              [] n = "start" -> Bool(FALSE)
              [] n = "end" -> Bool(StrNat(meta.p.number.v) + 1 = len)
              [] OTHER -> meta.p[n]])

\* The frame data with data.repeat[item] = meta: meta is one object, which
\* the frame keeps a reference to
WithMeta(scope, data, item, meta) ==
    [scope EXCEPT ![data] =
        WithProp(@, "repeat",
                 WithProp(IF HasName(@, "repeat") THEN @.p.repeat ELSE Obj(NoProps),
                          item, meta))]

\* The loop of the repeat processor over the values from the one of index i
\* on: done is what the fragment holds so far
RECURSIVE RepeatFrom(_, _, _, _, _, _, _, _, _)
\* The loop once the clone i is processed, r being what process answers and
\* keyed the meta information the clone was given
RepeatCloned(r, i, values, keyed, item, data, original, done, path) ==
    IF r.err # "" THEN Thrown(r.err, original, r.w)
    ELSE RepeatFrom(i + 1, values, RepeatNext(keyed, Len(values)), item, data,
                    original, done \o r.nodes,
                    [r.w EXCEPT !.stack =
                        WithMeta(@, data, item, RepeatNext(keyed, Len(values)))],
                    path)
RepeatFrom(i, values, meta, item, data, original, done, w, path) ==
    IF i >= Len(values) THEN ReturnedNode(DocumentFragment(done), original, w)
    ELSE LET keyed == WithProp(meta, "key", values[i + 1].key)
             bound == AssignProp(WithMeta(w.stack, data, item, keyed), data, item,
                                 values[i + 1].val)
         IN  RepeatCloned(Process(InLoop(original), TRUE,
                                  Logged([w EXCEPT !.stack = bound.stack],
                                         [kind |-> "clone", path |-> path, k |-> i,
                                          item |-> item, given |-> values[i + 1],
                                          stack |-> bound.stack]),
                                  ClonePath(path, i)),
                          i, values, keyed, item, data, original, done, path)

\* The repeat processor once the value is known
RepeatOverValues(values, item, node, w, path) ==
    IF values.k = "throw" THEN Thrown(values.err, node, w)
    ELSE RepeatFrom(0, values.val, RepeatMeta(Len(values.val)), item, Len(w.stack), node,
                    <<>>,
                    [w EXCEPT !.stack =
                        WithMeta(@, Len(w.stack), item, RepeatMeta(Len(values.val)))],
                    path)
RepeatOver(value, item, node, w, path) ==
    IF value.k = "throw" THEN Thrown(value.err, node, w)
    ELSE RepeatOverValues(RepeatValues(value.val), item, node, w, path)

\* The processor repeat once `item = exp.ident(); tales = exp.tales();` are
\* read
RepeatParsed(item, tales, node, w, path) ==
    RepeatOver(IF tales.ok THEN Tales(tales.val, w.stack)
               ELSE Throw("Empty tales expression"),
               IF item.ok THEN item.val ELSE "null", node, w, path)

\* The processor repeat
Repeat(node, exp, w, path) ==
    IF IsInLoop(node) THEN Returned("true", OutOfLoop(node), w)
    ELSE RepeatParsed(ParserIdent(exp, 0), ParserTales(exp, ParserIdent(exp, 0).pos),
                      node, w, path)

\* String(value), what setAttribute and textContent make of a value
StringOf(value) ==
    CASE value.t = "null" -> "null"
      [] value.t = "undefined" -> "undefined"
      [] value.t = "object" -> "[object Object]"
      [] OTHER -> ToStr(value)

\* The processor content once its expression is evaluated: DEFAULT keeps the
\* children, a node takes their place, and any other value becomes the text
\* of the node (no text node for '' and null), the children being skipped
ContentValue(value, node, w) ==
    CASE value.k = "throw" -> Thrown(value.err, node, w)
      [] value.k = "ok" /\ value.val = DEFAULT -> Returned("true", node, w)
      [] value.k = "ok" /\ value.val # DEFAULT /\ value.val.v = "fragment" ->
            Returned("true", [node EXCEPT !.childNodes = value.val.childNodes], w)
      [] OTHER ->
            Returned("false",
                     [node EXCEPT !.childNodes =
                        IF value.val = NOTHING \/ value.val.t = "null"
                                \/ StringOf(value.val) = ""
                        THEN <<>> ELSE <<TextNode(StringOf(value.val))>>],
                     w)

\* The processor content
Content(node, exp, w, path) ==
    With(ParserTales(exp, 0), LAMBDA tales :
        ContentValue(IF tales.ok THEN Tales(tales.val, w.stack)
                     ELSE Throw("Empty tales expression"), node, w))

\* exp.rex(/^\s*([a-z][a-z0-9_:-]*)/i)
ParserAttrName(exp, pos) ==
    LET i == SkipSpaces(exp, pos + 1) - 1
        j == FirstWhere(i, Len(exp) - 1,
                        LAMBDA k : ~(IsWord(CharAt(exp, k)) \/ CharAt(exp, k) \in {":", "-"}))
    IN  IF i < Len(exp) /\ IsLetter(CharAt(exp, i))
        THEN Matched(SubSeq(exp, i + 1, j), j)
        ELSE NoMatch(pos)

\* node.setAttribute(name, value) and node.removeAttribute(name)
SetAttribute(attributes, name, value) ==
    IF AttrIndex(attributes, name) # 0
    THEN [attributes EXCEPT ![AttrIndex(attributes, name)].value = value]
    ELSE Append(attributes, Attr(name, value))
RemoveAttribute(attributes, name) == SelectSeq(attributes, LAMBDA a : a.name # name)

\* An attribute that is always set to the text of the value.
AttributesSetText(node, attr, value) ==
    [node EXCEPT !.attributes = SetAttribute(@, attr, StringOf(value))]

\* What the processor attributes does to the node with the value of a pair
AttributesSet(node, attr, value) ==
    [node EXCEPT !.attributes =
        CASE value = Bool(TRUE) -> SetAttribute(@, attr, attr)
          [] value = Bool(FALSE) \/ value = NOTHING -> RemoveAttribute(@, attr)
          [] value = DEFAULT -> @
          [] OTHER -> SetAttribute(@, attr, StringOf(value))]

\* The loop of the processor attributes over the pairs, from pos on
RECURSIVE AttributesFrom(_, _, _, _)
AttributesFrom(exp, pos, node, w) ==
    With(ParserAttrName(exp, pos), LAMBDA attr :
    With(ParserStr(exp, ParserStr(exp, attr.pos, ":").pos, "=").pos, LAMBDA sep :
    With(ParserTales(exp, sep), LAMBDA tales :
    With(IF attr.ok /\ tales.ok THEN Tales(tales.val, w.stack) ELSE Ok(Undef), LAMBDA value :
    With(IF ParserStr(exp, tales.pos, ";").ok THEN ParserStr(exp, tales.pos, ";")
         ELSE ParserStr(exp, tales.pos, ","), LAMBDA more :
        CASE ~attr.ok ->
                Thrown("Expected attribute name at " \o NatStr(pos) \o " in \"" \o exp \o "\"",
                       node, w)
          [] attr.ok /\ ~tales.ok ->
                Thrown("Expected tales expression at " \o NatStr(sep) \o " in \"" \o exp \o "\"",
                       node, w)
          [] attr.ok /\ tales.ok /\ value.k = "throw" -> Thrown(value.err, node, w)
          [] OTHER ->
                IF more.ok
                THEN AttributesFrom(exp, more.pos, AttributesSet(node, attr.val, value.val), w)
                ELSE Returned("true", AttributesSet(node, attr.val, value.val), w))))))

\* The processor attributes
Attributes(node, exp, w, path) == AttributesFrom(exp, 0, node, w)

\* A processor that put nodes where the node stood and returns true: node is
\* the node it took out of the tree
Swapped(nodes, node, w) ==
    [ret |-> "true", nodes |-> nodes, node |-> node, w |-> w, err |-> ""]
HasSwapped(r) == "nodes" \in DOMAIN r

\* The processor replace once its expression is evaluated, `|| ''` included:
\* DEFAULT keeps the node, a node takes its place, NOTHING removes it, and
\* any other value becomes a text node that takes its place
ReplaceValue(value, node, w) ==
    CASE value.k = "throw" -> Thrown(value.err, node, w)
      [] value.k = "ok" /\ value.val = DEFAULT -> Returned("true", node, w)
      [] value.k = "ok" /\ value.val = NOTHING -> Returned("null", node, w)
      [] value.k = "ok" /\ value.val \notin {DEFAULT, NOTHING}
            /\ value.val.v = "fragment" ->
            Swapped(value.val.childNodes, node, w)
      [] OTHER ->
            ReturnedNode(TextNode(IF Truthy(value.val) THEN StringOf(value.val) ELSE ""),
                         node, w)

\* The processor replace
Replace(node, exp, w, path) ==
    With(ParserTales(exp, 0), LAMBDA tales :
        ReplaceValue(IF tales.ok THEN Tales(tales.val, w.stack)
                     ELSE Throw("Empty tales expression"), node, w))

\* The processor omit-tag once its value is known: a falsy value keeps the
\* node; otherwise the children move to a fragment, which is processed and
\* returned
OmitTagValue(value, node, w, path) ==
    IF value.k = "throw" THEN Thrown(value.err, node, w)
    ELSE IF ~Truthy(value.val) THEN Returned("true", node, w)
    ELSE With(Process(DocumentFragment(node.childNodes), FALSE, w, path), LAMBDA r :
        IF r.err # "" THEN Thrown(r.err, [node EXCEPT !.childNodes = <<>>], r.w)
        ELSE ReturnedNode(r.nodes[1], [node EXCEPT !.childNodes = <<>>], r.w))

\* The processor omit-tag
OmitTag(node, exp, w, path) ==
    With(ParserTales(exp, 0), LAMBDA tales :
        OmitTagValue(IF tales.ok THEN Tales(tales.val, w.stack) ELSE Ok(Bool(TRUE)),
                     node, w, path))

\* ---------------------------------------------------- dependency tracking

\* this.tracker is bind.tracking when Bind is loaded: the walk then carries
\* the variables that Bind observes, the bound renderers made so far, the
\* number of the run under way (0 for run(), n for the n-th call of a bound
\* renderer) and the variables bound, backup and alldeps of the call of
\* render under way
Tracking(w) == "observed" \in DOMAIN w

\* `var backup; var alldeps = [];` and the argument bound of render: 0 stands
\* for none, k for the k-th bound renderer made
NoLocals == [alldeps |-> <<>>, backup |-> [nodeType |-> 0], bound |-> 0]

\* The variables of the data that Bind can observe
Observables == <<"v", "list">>

\* this.tracker.end() after text was evaluated: the observed variables that
\* text names
Reads(text, w) ==
    SelectSeq(Observables, LAMBDA n : n \in w.observed /\ IndexOf(text, n, 0) # -1)

\* processor.proctype is CONTENT or REPLACE
IsDestructive(procname) ==
    procname \in {"condition", "repeat", "replace", "content", "omit-tag"}

\* The walk w once the processor procname was called on node with exp: a
\* destructive processor has its node backed up first unless a backup
\* exists, a copy that the property domtal_repeat is not part of, and its
\* dependencies added to alldeps. The repeat processor evaluates nothing on
\* a clone.
Tracked(w, procname, node, exp) ==
    IF ~Tracking(w) \/ ~IsDestructive(procname) THEN w
    ELSE [w EXCEPT !.locals.backup =
                        IF @.nodeType # 0 THEN @
                        ELSE IF "domtal_repeat" \in DOMAIN node
                        THEN [nodeType |-> 1, tag |-> node.tag,
                              attributes |-> node.attributes,
                              childNodes |-> node.childNodes]
                        ELSE node,
                   !.locals.alldeps =
                        @ \o (IF procname = "repeat" /\ "domtal_repeat" \in DOMAIN node
                              THEN <<>> ELSE Reads(exp, w))]

\* The variables of render after the call of a processor that answered
\* with the walk rw: the calls of render below it had their own
Resumed(rw, w) == IF Tracking(w) THEN [rw EXCEPT !.locals = w.locals] ELSE rw

\* The node with the mark of the bound renderer k, whose closure holds it
Marked(node, k) ==
    [x \in DOMAIN node \cup {"bid"} |-> IF x = "bid" THEN k ELSE node[x]]

\* No look at bound: a renderer is set up whenever alldeps is not empty.
SetsUpRebinding(w) == Tracking(w) /\ w.locals.alldeps # <<>>

\* `if (!bound && alldeps.length)`: render sets up a bound renderer
SetsUp(w) == Tracking(w) /\ w.locals.bound = 0 /\ w.locals.alldeps # <<>>

\* bind(function(){...}, {ctx: this}) and bound.depends(alldeps): the bound
\* renderer keeps the backup, a copy of the array of the frames, and the
\* node in its closure; made keeps the argument bound of the call of render
\* that made it
BoundTo(w, path) ==
    [path |-> path, run |-> w.run, backup |-> w.locals.backup, snapshot |-> w.stack,
     deps |-> w.locals.alldeps, made |-> w.locals.bound, removed |-> FALSE]

\* `if (bound && alldeps.length) bound.depends(alldeps)`, after the set up
Depended(w, path) ==
    IF SetsUp(w) THEN [w EXCEPT !.bound = Append(@, BoundTo(w, path))]
    ELSE IF Tracking(w) /\ w.locals.bound # 0 /\ w.locals.alldeps # <<>>
    THEN [w EXCEPT !.bound[w.locals.bound].deps = w.locals.alldeps]
    ELSE w

\* The node that render holds once the bound renderer is set up
Held(node, w) == IF SetsUp(w) THEN Marked(node, Len(w.bound) + 1) ELSE node

\* processor.call(this, node, anode.value) for the processors of the model;
\* the log keeps the expression, the scope stack it met, its answer (and the
\* node it returned, if it returned one) and the node as it left it.
Called(r, procname, exp, w, path) ==
    [r EXCEPT !.w = Logged(Resumed(@, w),
                           [kind |-> "processor", path |-> path,
                            procname |-> procname, exp |-> exp,
                            stack |-> w.stack, ret |-> r.ret, err |-> r.err,
                            value |-> IF r.ret = "node" THEN r.value
                                      ELSE [nodeType |-> 0],
                            node |-> r.node])]
CallProcessor(procname, node, exp, w, path) ==
    Called(CASE procname = "define" -> Define(node, exp, w, path)
             [] procname = "condition" -> Condition(node, exp, w, path)
             [] procname = "repeat" -> Repeat(node, exp, w, path)
             [] procname = "replace" -> Replace(node, exp, w, path)
             [] procname = "content" -> Content(node, exp, w, path)
             [] procname = "attributes" -> Attributes(node, exp, w, path)
             [] procname = "omit-tag" -> OmitTag(node, exp, w, path),
           procname, exp, Tracked(w, procname, node, exp), path)

\* The namespace of the processor attributes of a node: none on an element
\* whose name starts with it
Ns(node) == IF Len(node.tag) >= 4 /\ SubSeq(node.tag, 1, 4) = "tal:" THEN "" ELSE "tal:"

\* processors.until(...) of render from the slot i on: nodes is what stands
\* where the node stood, replaced whether that is no longer the node,
\* foundAttrs the attributes processed, recurse what the last processor said.
\* The first slot from i on whose processor is missing or has its attribute
\* on the node: the slots before it leave everything as it is
NextSlot(i, node) ==
    FirstWhere(i, Len(processors.map) - 1, LAMBDA k :
        \/ ~InRange(processors.items, JsAt(processors.map, k))
        \/ AttrIndex(node.attributes,
                     Ns(node) \o JsAt(processors.items, JsAt(processors.map, k)).procname) # 0)

\* The processor of the slot i, and the place of its attribute on the node
\* (0 when the node has none)
SlotProcessor(i) == JsAt(processors.items, JsAt(processors.map, i))
SlotAttr(i, node) == AttrIndex(node.attributes, Ns(node) \o SlotProcessor(i).procname)

RECURSIVE Until(_, _, _, _, _, _, _)

\* What the callback of until does with the answer r of the processor of the
\* slot i, found being the processed attributes, this one included
UntilAnswered(r, i, attrsNo, found, recurse, path) ==
    CASE r.err # "" ->
            [nodes |-> <<r.node>>, replaced |-> FALSE, foundAttrs |-> found,
             recurse |-> recurse, w |-> r.w, err |-> r.err]
      [] r.err = "" /\ r.ret = "null" ->
            [nodes |-> InsertMarker(r.w.uniqueId, SlotProcessor(i).procname, <<>>),
             replaced |-> TRUE, foundAttrs |-> found, recurse |-> FALSE,
             w |-> [r.w EXCEPT !.uniqueId = @ + 1], err |-> ""]
      [] r.err = "" /\ r.ret = "node" /\ r.value.nodeType = 11 ->
            [nodes |-> InsertMarker(r.w.uniqueId, SlotProcessor(i).procname,
                                    r.value.childNodes),
             replaced |-> TRUE, foundAttrs |-> found, recurse |-> FALSE,
             w |-> [r.w EXCEPT !.uniqueId = @ + 1], err |-> ""]
      [] r.err = "" /\ r.ret = "node" /\ r.value.nodeType # 11 ->
            [nodes |-> <<r.value>>, replaced |-> TRUE, foundAttrs |-> found,
             recurse |-> FALSE, w |-> r.w, err |-> ""]
      [] r.err = "" /\ r.ret \notin {"null", "node"} /\ HasSwapped(r) ->
            [nodes |-> r.nodes, replaced |-> TRUE, foundAttrs |-> found,
             recurse |-> FALSE, w |-> r.w, err |-> "", detached |-> r.node]
      [] r.err = "" /\ r.ret \notin {"null", "node"} /\ ~HasSwapped(r)
            /\ attrsNo - 1 < 1 ->
            [nodes |-> <<r.node>>, replaced |-> FALSE, foundAttrs |-> found,
             recurse |-> r.ret # "false", w |-> r.w, err |-> ""]
      [] OTHER -> Until(i + 1, r.node, attrsNo - 1, found, r.ret # "false", r.w, path)

Until(i, node, attrsNo, foundAttrs, recurse, w, path) ==
    CASE i >= Len(processors.map) ->
            [nodes |-> <<node>>, replaced |-> FALSE, foundAttrs |-> foundAttrs,
             recurse |-> recurse, w |-> w, err |-> ""]
      [] i < Len(processors.map) /\ ~InRange(processors.items, JsAt(processors.map, i)) ->
            [nodes |-> <<node>>, replaced |-> FALSE, foundAttrs |-> foundAttrs,
             recurse |-> recurse, w |-> w, err |-> "TypeError: processor is undefined"]
      [] i < Len(processors.map) /\ InRange(processors.items, JsAt(processors.map, i))
            /\ SlotAttr(i, node) = 0 ->
            Until(NextSlot(i + 1, node), node, attrsNo, foundAttrs, recurse, w, path)
      [] OTHER ->
            UntilAnswered(CallProcessor(SlotProcessor(i).procname, node,
                                        node.attributes[SlotAttr(i, node)].value, w, path),
                          i, attrsNo,
                          Append(foundAttrs, node.attributes[SlotAttr(i, node)].name),
                          recurse, path)

\* The interpolation of the attributes left on the node, the last one first
RECURSIVE InterpolateAttrs(_, _, _, _)
InterpolateAttrs(attributes, attrsNo, w, path) ==
    IF attrsNo = 0 THEN [attributes |-> attributes, w |-> w, err |-> ""]
    ELSE IF IndexOf(attributes[attrsNo].value, "${", 0) = -1
    THEN InterpolateAttrs(attributes, attrsNo - 1, w, path)
    ELSE With(Interpolate(attributes[attrsNo].value, w.stack), LAMBDA r :
        LET w1 == Logged(w, [kind |-> "attr", path |-> path,
                             name |-> attributes[attrsNo].name,
                             src |-> attributes[attrsNo].value, out |-> r])
        IN  IF r.k = "throw" THEN [attributes |-> attributes, w |-> w1, err |-> r.err]
            ELSE InterpolateAttrs([attributes EXCEPT ![attrsNo].value = r.val.v],
                                  attrsNo - 1, w1, path))

\* The loop of render over the children of a node, the child i being next
RECURSIVE ProcessChildren(_, _, _, _, _)
\* The loop once the child i is processed, r being what process answers
ChildProcessed(r, children, i, done, path) ==
    IF r.err # ""
    THEN [nodes |-> done \o r.nodes \o SubSeq(children, i + 1, Len(children)),
          w |-> r.w, err |-> r.err]
    ELSE ProcessChildren(children, i + 1, done \o r.nodes, r.w, path)
ProcessChildren(children, i, done, w, path) ==
    IF i > Len(children) THEN [nodes |-> done, w |-> w, err |-> ""]
    ELSE ChildProcessed(Process(children[i], TRUE, w, Append(path, i)), children, i, done,
                        path)

\* The node once its children are processed, r being what the loop answers
Recursed(r, node) ==
    [w |-> r.w, err |-> r.err, nodes |-> <<[node EXCEPT !.childNodes = r.nodes]>>]

\* `if (recurse) { ... this.process(child) ... }`: a node that is neither an
\* element nor a fragment has no child
Recurse(recurse, node, w, path) ==
    IF ~recurse \/ node.nodeType \notin {1, 11}
    THEN [nodes |-> <<node>>, w |-> w, err |-> ""]
    ELSE Recursed(ProcessChildren(node.childNodes, 1, <<>>, w, path), node)

\* The variables of render for a text node that is interpolated: `if
\* (!backup && !bound) backup = node.cloneNode(true)`, and alldeps is what
\* the tracker answers
TextTracked(node, w) ==
    IF ~Tracking(w) THEN w
    ELSE [w EXCEPT !.locals.backup = IF w.locals.bound = 0 THEN node ELSE @,
                   !.locals.alldeps = Reads(node.nodeValue, w)]

\* The branch of render for a text node
RenderText(node, w, path) ==
    IF IndexOf(node.nodeValue, "$", 0) = -1 THEN [nodes |-> <<node>>, w |-> w, err |-> ""]
    ELSE With(Interpolate(node.nodeValue, w.stack), LAMBDA r :
        [nodes |-> IF r.k = "throw" THEN <<node>>
                   ELSE <<Held(TextNode(r.val.v), TextTracked(node, w))>>,
         w |-> Logged(IF r.k = "throw" THEN w ELSE Depended(TextTracked(node, w), path),
                      [kind |-> "text", path |-> path,
                       src |-> node.nodeValue, out |-> r]),
         err |-> r.err])

\* The branch of render for an element that has a parent and attributes,
\* u being what the loop over the processors left: the processed attributes
\* are removed and the others interpolated; after a marker or a returned
\* node took its place nothing is left to do, and after the processor itself
\* swapped it the attributes are those of the node taken out of the tree
RenderElement(u, path) ==
    IF u.err # "" \/ (u.replaced /\ "detached" \notin DOMAIN u)
    THEN [nodes |-> u.nodes, recurse |-> FALSE, w |-> u.w, err |-> u.err]
    ELSE IF u.replaced
    THEN With(RemoveAttrs(u.detached.attributes, u.foundAttrs), LAMBDA left :
         With(InterpolateAttrs(left, Len(left), u.w, path), LAMBDA ia :
            [nodes |-> u.nodes, recurse |-> FALSE, w |-> ia.w, err |-> ia.err]))
    ELSE With(RemoveAttrs(u.nodes[1].attributes, u.foundAttrs), LAMBDA left :
         With(InterpolateAttrs(left, Len(left), u.w, path), LAMBDA ia :
            [nodes |-> <<[u.nodes[1] EXCEPT !.attributes = ia.attributes]>>,
             recurse |-> u.recurse /\ ia.err = "", w |-> ia.w, err |-> ia.err]))

\* The end of render for an element, e being what is left of it: its
\* children are processed if recurse says so
Rendered(e, path) ==
    IF e.recurse THEN Recurse(TRUE, Held(e.nodes[1], e.w), Depended(e.w, path), path)
    ELSE IF e.err # "" THEN [nodes |-> e.nodes, w |-> e.w, err |-> e.err]
    ELSE [nodes |-> IF SetsUp(e.w) THEN <<Held(e.nodes[1], e.w)>> \o Tail(e.nodes)
                    ELSE e.nodes,
          w |-> Depended(e.w, path), err |-> ""]

\* DomTal.prototype.render: what stands where the node stood, the state, the
\* error
Render(node, hasParent, w, path) ==
    CASE node.nodeType = 3 -> RenderText(node, w, path)
      [] node.nodeType = 1 /\ hasParent /\ Len(node.attributes) > 0 ->
            Rendered(RenderElement(Until(0, node, Len(node.attributes), <<>>, TRUE, w, path),
                                   path),
                     path)
      [] OTHER -> Recurse(TRUE, node, w, path)

\* this.stack.push({}), and the variables of the call of render to come
Pushed(w) ==
    IF Tracking(w) THEN [w EXCEPT !.stack = Append(@, Obj(NoProps)), !.locals = NoLocals]
    ELSE [w EXCEPT !.stack = Append(@, Obj(NoProps))]

\* `snapshot = this.stack.slice(0)` copies the array and not the frames: the
\* frame that process pushed is the same object in the snapshot of every
\* bound renderer made while it was on the stack, and these see it as it
\* is when it is popped. rw is the walk after render, w the walk before the
\* push.
Shared(rw, w) ==
    IF ~Tracking(w) THEN rw
    ELSE [rw EXCEPT !.bound =
            [k \in 1..Len(@) |->
                IF k > Len(w.bound) /\ Len(@[k].snapshot) > Len(w.stack)
                      /\ Len(rw.stack) > Len(w.stack)
                THEN [@[k] EXCEPT !.snapshot[Len(w.stack) + 1] = rw.stack[Len(w.stack) + 1]]
                ELSE @[k]]]

\* DomTal.prototype.process: a frame is pushed, the node is rendered, and the
\* frame is popped unless render threw. The log keeps the depth of the scope
\* stack before the call and after it.
Processed(r, w, path) ==
    [r EXCEPT !.w =
        Logged([Shared(@, w) EXCEPT
                    !.stack = IF r.err # "" THEN @ ELSE SubSeq(@, 1, Len(@) - 1)],
               [kind |-> "process", path |-> path, before |-> Len(w.stack),
                after |-> IF r.err # "" THEN Len(r.w.stack) ELSE Len(r.w.stack) - 1,
                threw |-> r.err # ""])]
Process(node, hasParent, w, path) ==
    Processed(Render(node, hasParent, Pushed(w), path), w, path)

\* --------------------------------------------- specification of tales()

\* tal.set({empty: null, zero: 0, falsy: false, one: 1, obj: {}, str: 'str'})
TalesData ==
    [n \in {"empty", "zero", "falsy", "one", "obj", "str"} |->
        CASE n = "empty" -> Null
          [] n = "zero" -> Num("0")
          [] n = "falsy" -> Bool(FALSE)
          [] n = "one" -> Num("1")
          [] n = "obj" -> Obj(NoProps)
          [] n = "str" -> Str("str")]

\* The alternatives the chains are made of.
AltTexts ==
    {"0", "1", "''", "empty", "falsy", "missing", "missing.path",
     "nothing", "default", "Nothing", " DEFAULT ",
     "bogus:1", "string:x", "not:1"}

Chains == UNION {[1..n -> AltTexts] : n \in 1..MaxAlts}

\* No parser was made: new ExpressionParser('') stands for it
NoParser == [exp |-> "", pos |-> 0]
NotParsed == [k |-> "none", val |-> <<>>, from |-> 0]
ParserIdle == parser = NoParser /\ parsed = NotParsed

\* No tales() call is under way.
TalesIdle == exps = <<>> /\ talesOut = NotRun /\ ParserIdle

\* The registry as the script leaves it, and no node rendered yet.
RegistryLoaded ==
    /\ processors = BuiltinList
    /\ regs = {Builtins[i] : i \in 1..Len(Builtins)}
    /\ nextGen = Len(Builtins) + 1
    /\ regOps = 0
    /\ nodeAttrs = <<>>
    /\ invoked = [invoked |-> <<>>, threw |-> FALSE]

\* set() was not called.
NoSet == [op |-> "none"]
ScopeIdle == lastSet = NoSet

\* Bind is not loaded: the tracker is the dummy one and no renderer is bound
Unbound == bindings = [tracker |-> "mock"]

\* No template is loaded and run() was not called.
NoNode == [nodeType |-> 0]
WalkIdle ==
    /\ tpl = NoNode
    /\ dom = NoNode
    /\ walkErr = ""
    /\ walkLog = <<>>
    /\ uniqueId = 1

InitTales ==
    /\ stack = <<Obj(TalesData)>>
    /\ exps \in Chains
    /\ talesOut = NotRun
    /\ ParserIdle
    /\ RegistryLoaded
    /\ Unbound
    /\ ScopeIdle
    /\ WalkIdle

\* tal.tales(exps)
TalesCall ==
    /\ talesOut = NotRun
    /\ talesOut' = Tales(exps, stack)
    /\ UNCHANGED <<stack, exps, parser, parsed, registryVars, lastSet, walkVars, bindings>>

NextTales == TalesCall

SpecTales == InitTales /\ [][NextTales]_vars

\* ------------------------------------------------------- claims on tales()

TalesDone == talesOut.k # "none"

\* The alternative names a modifier that is not registered.
UnknownPrefix(exp) ==
    PrefixMatch(exp).found /\ PrefixMatch(exp).name \notin ModifierNames

\* What the modifier of one alternative does with it, taken alone.
Yields(exp) ==
    LET m == PrefixMatch(exp)
    IN  IF m.found
        THEN CallModifier(m.name, SubSeq(exp, m.len + 1, Len(exp)), stack)
        ELSE CallModifier("js", exp, stack)

IsKeyword(exp) == Trim(exp) \in {"default", "nothing"}
IsKeywordAnyCase(exp) == ToLower(Trim(exp)) \in {"default", "nothing"}
SentinelOf(exp) == IF ToLower(Trim(exp)) = "default" THEN DEFAULT ELSE NOTHING

\* The alternative produces a defined value: a sentinel, or a value other
\* than undefined from its modifier.
Defines(exp) ==
    \/ IsKeyword(exp)
    \/ /\ ~UnknownPrefix(exp)
       /\ Yields(exp).k = "ok"
       /\ Yields(exp).val # Undef

DefinedValue(exp) == IF IsKeyword(exp) THEN SentinelOf(exp) ELSE Yields(exp).val

\* The alternative fails (its modifier throws) or is undefined.
FallsThrough(exp) ==
    /\ ~IsKeyword(exp)
    /\ ~UnknownPrefix(exp)
    /\ (Yields(exp).k = "throw" \/ Yields(exp).val = Undef)

\* C1: the first alternative that produces a defined value, the sentinels
\* and the falsy values 0, false and '' included, is the result of the chain.
C1_FirstDefinedWins ==
    TalesDone =>
        \A i \in 1..Len(exps) :
            (Defines(exps[i]) /\ \A j \in 1..(i - 1) : FallsThrough(exps[j]))
                => (talesOut.k = "ok" /\ talesOut.val = DefinedValue(exps[i]))

\* C2: an alternative that is the keyword nothing or default in any letter
\* case, reached after alternatives that all failed or were undefined, makes
\* tales() return the sentinel of the keyword.
C2_KeywordAnyCase ==
    TalesDone =>
        \A i \in 1..Len(exps) :
            (/\ IsKeywordAnyCase(exps[i])
             /\ \A j \in 1..(i - 1) :
                    ~IsKeywordAnyCase(exps[j]) /\ FallsThrough(exps[j]))
                => (talesOut.k = "ok" /\ talesOut.val = SentinelOf(exps[i]))

RECURSIVE LastModifierError(_, _)
LastModifierError(chain, i) ==
    IF i = 0 THEN ""
    ELSE IF FallsThrough(chain[i]) /\ Yields(chain[i]).k = "throw"
    THEN Yields(chain[i]).err
    ELSE LastModifierError(chain, i - 1)

\* C4: an error other than the unknown-modifier one reaches the caller only
\* if no alternative defines a value, and it is the last error a modifier
\* threw, or the error of an undefined value when no modifier threw.
C4_ErrorOnlyIfNoneDefined ==
    (/\ TalesDone
     /\ talesOut.k = "throw"
     /\ \A i \in 1..Len(exps) : ~UnknownPrefix(exps[i]))
        => /\ \A i \in 1..Len(exps) : ~Defines(exps[i])
           /\ talesOut.err =
                IF LastModifierError(exps, Len(exps)) # ""
                THEN LastModifierError(exps, Len(exps))
                ELSE "resolved to an undefined value"

\* ------------------------------------- specification of the processor registry

\* The names and priorities of the processor() calls made after loading.
RegNames == {"content", "omit-tag", "x"}
RegPrios == {PRIO_HIGH, PRIO_AVERAGE, PRIO_MIN}

AllBuiltinAttrs ==
    <<"omit-tag", "attributes", "content", "replace", "repeat", "condition", "define">>

\* The processor attributes of the nodes rendered, in declaration order.
AttrLists ==
    {AllBuiltinAttrs, <<"replace", "x">>, <<"x", "content", "omit-tag">>,
     <<"define", "content">>}

InitRegistry ==
    /\ stack = <<Obj(NoProps)>>
    /\ TalesIdle
    /\ RegistryLoaded
    /\ Unbound
    /\ ScopeIdle
    /\ WalkIdle

NotRendered == [invoked |-> <<>>, threw |-> FALSE]

\* DomTal.prototype.processor(name, priority, fn); the record of the node
\* rendered last is dropped.
RegisterCall(name, priority) ==
    /\ regOps < MaxRegistryOps
    /\ processors' = RegisterProcessor(processors, name, priority, "default", nextGen).list
    /\ regs' = {p \in regs : p.procname # name}
                    \cup {Processor(name, "default", priority, nextGen)}
    /\ nextGen' = nextGen + 1
    /\ regOps' = regOps + 1
    /\ nodeAttrs' = <<>>
    /\ invoked' = NotRendered
    /\ UNCHANGED <<stack, talesVars, lastSet, walkVars, bindings>>

\* processors.removeByName(name)
RemoveCall(name) ==
    /\ regOps < MaxRegistryOps
    /\ processors' = ListRemoveByName(processors, name).list
    /\ regs' = {p \in regs : p.procname # name}
    /\ regOps' = regOps + 1
    /\ nodeAttrs' = <<>>
    /\ invoked' = NotRendered
    /\ UNCHANGED <<stack, talesVars, nextGen, lastSet, walkVars, bindings>>

\* render(node) for an element with the processor attributes attrs
RenderCall(attrs) ==
    /\ nodeAttrs = <<>>
    /\ nodeAttrs' = attrs
    /\ invoked' = Invoke(processors, attrs)
    /\ UNCHANGED <<stack, talesVars, processors, regs, nextGen, regOps, lastSet, walkVars, bindings>>

NextRegistry ==
    \/ \E name \in RegNames, priority \in RegPrios : RegisterCall(name, priority)
    \/ \E name \in RegNames : RemoveCall(name)
    \/ \E attrs \in AttrLists : RenderCall(attrs)

SpecRegistry == InitRegistry /\ [][NextRegistry]_vars

\* ------------------------------------------------- claims on the registry

\* p is invoked before q: a lower priority, or the same and registered first
Before(p, q) == p.prio < q.prio \/ (p.prio = q.prio /\ p.gen < q.gen)

Reversed(seq) == [i \in 1..Len(seq) |-> seq[Len(seq) + 1 - i]]

ProcNames(seq) == [i \in 1..Len(seq) |-> seq[i].procname]

\* C5: the processors invoked on a node are invoked in ascending priority
\* order, registration order breaking ties, whatever the order in which the
\* attributes are declared; for the built-ins on a node that has them all this
\* is define, condition, repeat, replace, content, attributes, omit-tag.
C5_PriorityOrder ==
    nodeAttrs # <<>> =>
        /\ \A a, b \in 1..Len(invoked.invoked) :
                a < b => Before(invoked.invoked[a], invoked.invoked[b])
        /\ invoked = Invoke(processors, Reversed(nodeAttrs))
        /\ (nodeAttrs = AllBuiltinAttrs /\ processors = BuiltinList)
                => ProcNames(invoked.invoked) = Reversed(AllBuiltinAttrs)

\* The slots of the list an iteration (each, until) visits: the item of each,
\* or "undefined" when the slot points past the items.
Visited ==
    [i \in 1..Len(processors.map) |->
        IF InRange(processors.items, processors.map[i])
        THEN JsAt(processors.items, processors.map[i])
        ELSE "undefined"]

\* C6: after any calls of processor() and removeByName(), an iteration visits
\* exactly the processors registered and not removed since, the latest of
\* each name, each once, in priority order.
C6_OneEntryPerName ==
    /\ \A i \in 1..Len(Visited) : Visited[i] \in regs
    /\ \A p \in regs : \E i \in 1..Len(Visited) : Visited[i] = p
    /\ \A i, j \in 1..Len(Visited) : i < j => Before(Visited[i], Visited[j])

\* ------------------------------------- specification of the scope stack

\* Deepest scope stack: the nodes under way when set() is called.
MaxDepth == 3

ScopeNames == {"users", "title"}

\* An array with one element, as an object: its index and its length
UsersArray == Obj([n \in {"0", "length"} |-> IF n = "0" THEN Str("ann") ELSE Num("1")])

\* The values given to set(name, value)
ScopeValues == {Str("joe"), Num("22"), Null, UsersArray}

\* The objects given to set(frame) and to the constructor
ScopeFrames ==
    {Obj(NoProps),
     Obj([n \in {"title"} |-> Str("t")]),
     Obj([n \in {"users", "title"} |-> IF n = "users" THEN Str("old") ELSE Str("t")])}

InitScope ==
    /\ stack \in {<<frame>> : frame \in ScopeFrames}
    /\ lastSet = NoSet
    /\ TalesIdle
    /\ RegistryLoaded
    /\ Unbound
    /\ WalkIdle

\* tpl.set(name, value)
SetNameCall(name, value) ==
    /\ stack' = SetNamed(stack, name, value)
    /\ lastSet' = [op |-> "name", name |-> name, value |-> value, before |-> stack]
    /\ UNCHANGED <<talesVars, registryVars, walkVars, bindings>>

\* tpl.set(frame)
SetFrameCall(frame) ==
    /\ stack' = SetFrame(stack, frame)
    /\ lastSet' = [op |-> "frame", frame |-> frame, before |-> stack]
    /\ UNCHANGED <<talesVars, registryVars, walkVars, bindings>>

\* process() starts on a node: `this.stack.push({})`
ProcessEnter ==
    /\ Len(stack) < MaxDepth
    /\ stack' = Append(stack, Obj(NoProps))
    /\ lastSet' = NoSet
    /\ UNCHANGED <<talesVars, registryVars, walkVars, bindings>>

\* process() is done with a node: `this.stack.pop()`
ProcessLeave ==
    /\ Len(stack) > 1
    /\ stack' = SubSeq(stack, 1, Len(stack) - 1)
    /\ lastSet' = NoSet
    /\ UNCHANGED <<talesVars, registryVars, walkVars, bindings>>

NextScope ==
    \/ \E name \in ScopeNames, value \in ScopeValues : SetNameCall(name, value)
    \/ \E frame \in ScopeFrames : SetFrameCall(frame)
    \/ ProcessEnter
    \/ ProcessLeave

SpecScope == InitScope /\ [][NextScope]_vars

\* ---------------------------------------------- claims on the scope stack

\* The frames under the innermost one are what they were before the call.
OuterFramesKept ==
    /\ Len(stack) = Len(lastSet.before)
    /\ \A i \in 1..(Len(stack) - 1) : stack[i] = lastSet.before[i]

\* C9: after set(name, value), get(name) returns value, every other name of
\* the innermost frame is bound as before and the outer frames are unchanged;
\* after set(frame), the innermost frame is frame and the outer frames are
\* unchanged.
C9_SetBindsInFrame ==
    /\ lastSet.op = "name" =>
        /\ Get(stack, lastSet.name, Undef) = Ok(lastSet.value)
        /\ \A n \in ScopeNames \ {lastSet.name} :
            /\ HasName(stack[Len(stack)], n)
                    <=> HasName(lastSet.before[Len(stack)], n)
            /\ HasName(stack[Len(stack)], n)
                    => stack[Len(stack)].p[n] = lastSet.before[Len(stack)].p[n]
        /\ OuterFramesKept
    /\ lastSet.op = "frame" =>
        /\ stack[Len(stack)] = lastSet.frame
        /\ OuterFramesKept

\* ------------------------------------------ specification of the tree walk

\* tpl.set({foo: 'z', zero: 0, yes: ..., no: ..., boom: ...}): a string, a
\* number and three functions (one returns true, one returns false, one throws)
WalkData ==
    [n \in {"foo", "zero", "yes", "no", "boom"} |->
        CASE n = "foo" -> Str("z")
          [] n = "zero" -> Num("0")
          [] n = "yes" -> Fn("true")
          [] n = "no" -> Fn("false")
          [] n = "boom" -> Fn("throw")]

\* The expressions of the tal:condition attributes
ConditionTexts ==
    {"", "missing", "missing.path", "bogus:1", "missing | zero", "zero", "1",
     "foo", "yes", "no", "boom", "nothing"}

\* The attributes of the elements that define foo
DefineChoices ==
    {<<Attr("tal:define", "foo 'a'")>>,
     <<Attr("tal:define", "global foo 'g'")>>,
     <<Attr("title", "${foo}"), Attr("tal:define", "foo 'b'")>>,
     <<Attr("tal:define", "foo missing.path")>>,
     <<Attr("tal:condition", "foo"), Attr("tal:define", "foo zero")>>}

\* The attributes the outer element of the templates has
OuterChoices ==
    {<<>>} \cup DefineChoices \cup {<<Attr("tal:condition", c)>> : c \in ConditionTexts}

\* The attributes the other elements have
InnerChoices ==
    {<<>>} \cup DefineChoices
        \cup {<<Attr("tal:condition", c)>> : c \in {"missing.path", "yes", "no"}}

\* <div A>${foo}<span B>${foo}</span>${foo}</div><p C>${foo}</p>
Template(attrsA, attrsB, attrsC) ==
    DocumentFragment(
        <<Element("div", attrsA,
                  <<TextNode("${foo}"),
                    Element("span", attrsB, <<TextNode("${foo}")>>),
                    TextNode("${foo}")>>),
          Element("p", attrsC, <<TextNode("${foo}")>>)>>)

Templates ==
    {Template(a, b, c) : a \in OuterChoices, b \in InnerChoices, c \in InnerChoices}

InitWalk ==
    /\ stack = <<Obj(WalkData)>>
    /\ tpl \in Templates
    /\ dom = NoNode
    /\ walkErr = ""
    /\ walkLog = <<>>
    /\ uniqueId = 1
    /\ TalesIdle
    /\ RegistryLoaded
    /\ Unbound
    /\ ScopeIdle

\* The walk that starts from the state, for the run n
Walker(n) ==
    IF bindings.tracker = "mock"
    THEN [stack |-> stack, uniqueId |-> uniqueId, log |-> <<>>]
    ELSE [stack |-> stack, uniqueId |-> uniqueId, log |-> <<>>,
          observed |-> bindings.observed, bound |-> bindings.list, run |-> n,
          locals |-> NoLocals]

\* The bound renderers after the walk w
Bindings(w) == IF Tracking(w) THEN [bindings EXCEPT !.list = w.bound] ELSE bindings

\* The assignments of run(), r being what process() answers
Ran(r) ==
    /\ bindings' = Bindings(r.w)
    /\ stack' = r.w.stack
    /\ dom' = r.nodes[1]
    /\ walkErr' = r.err
    /\ walkLog' = r.w.log
    /\ uniqueId' = r.w.uniqueId

\* tpl.run(): the copy of the template is processed
RunCall ==
    /\ dom = NoNode
    /\ \E r \in {Process(tpl, FALSE, Walker(0), <<>>)} : Ran(r)
    /\ UNCHANGED <<tpl, talesVars, registryVars, lastSet>>

NextWalk == RunCall

SpecWalk == InitWalk /\ [][NextWalk]_vars

\* ------------------------------------------------ claims on the tree walk

Walked == dom # NoNode

\* C7: the depth of the scope stack after a call of process() is its depth
\* before the call, whether the call returned or threw; so it is 1 again
\* after run().
C7_ScopeDepthRestored ==
    /\ \A i \in 1..Len(walkLog) :
            walkLog[i].kind = "process" => walkLog[i].after = walkLog[i].before
    /\ Walked => Len(stack) = 1

\* p is the path of q or of a node above q
IsPrefix(p, q) == Len(p) <= Len(q) /\ SubSeq(q, 1, Len(p)) = p

Largest(S) == CHOOSE i \in S : \A j \in S : j <= i

\* The places of the log where ${foo} was interpolated, in a text node or in
\* an attribute, and what came out of it
Sightings ==
    {j \in 1..Len(walkLog) :
        /\ walkLog[j].kind \in {"text", "attr"}
        /\ walkLog[j].src = "${foo}"
        /\ walkLog[j].out.k = "ok"}
Saw(j) == walkLog[j].out.val.v

\* The defines of foo done before the place j of the log: the local ones of
\* the node of j and of the nodes above it, and the global ones
LocalDefines(j) ==
    {i \in 1..(j - 1) :
        /\ walkLog[i].kind = "define"
        /\ walkLog[i].name = "foo"
        /\ ~walkLog[i].global
        /\ IsPrefix(walkLog[i].path, walkLog[j].path)}
GlobalDefines(j) ==
    {i \in 1..(j - 1) :
        /\ walkLog[i].kind = "define"
        /\ walkLog[i].name = "foo"
        /\ walkLog[i].global}
Defined(i) == ToStr(walkLog[i].value)

\* The value outside every local define: the last global define, or the data
OuterValue(j) ==
    IF GlobalDefines(j) # {} THEN Defined(Largest(GlobalDefines(j)))
    ELSE ToStr(WalkData["foo"])

\* A node and the nodes under it see the local define nearest to them.
LocalDefineSeenBelow ==
    \A j \in Sightings :
        LocalDefines(j) # {} => Saw(j) = Defined(Largest(LocalDefines(j)))

\* A node with no local define on it or above it sees the outer value.
OuterValueSeenElsewhere ==
    \A j \in Sightings : LocalDefines(j) = {} => Saw(j) = OuterValue(j)

\* A global define is written in the outermost frame.
GlobalDefineInOutermostFrame ==
    GlobalDefines(Len(walkLog) + 1) # {} =>
        /\ HasName(stack[1], "foo")
        /\ ToStr(stack[1].p["foo"]) = OuterValue(Len(walkLog) + 1)

RECURSIVE NodeAt(_, _)
NodeAt(node, path) ==
    IF path = <<>> THEN node ELSE NodeAt(node.childNodes[Head(path)], Tail(path))

\* The calls of the condition processor in the log
ConditionCalls ==
    {j \in 1..Len(walkLog) :
        walkLog[j].kind = "processor" /\ walkLog[j].procname = "condition"}

\* The expression of the call j and what its evaluation gives in the scope
\* the call met
Parsed(j) == ParserTales(walkLog[j].exp, 0)
Evaluated(j) == Tales(Parsed(j).val, walkLog[j].stack)
IsEmpty(j) == ~Parsed(j).ok
EvalThrows(j) == Parsed(j).ok /\ Evaluated(j).k = "throw"
EvalFalsy(j) == Parsed(j).ok /\ Evaluated(j).k = "ok" /\ ~Truthy(Evaluated(j).val)
EvalTruthy(j) == Parsed(j).ok /\ Evaluated(j).k = "ok" /\ Truthy(Evaluated(j).val)
EvalFunction(j) == EvalTruthy(j) /\ Evaluated(j).val.t = "function"

\* A marker of the condition processor stands where the node stood.
Removed(path) ==
    /\ NodeAt(dom, path).nodeType = 8
    /\ SubSeq(NodeAt(dom, path).nodeValue, 1, 15) = "DOMTAL:MARK id="

\* The node is in the output and process() was called on its children: on
\* the first one, and on all of them when the walk did not throw.
Kept(path) ==
    /\ NodeAt(dom, path).nodeType = 1
    /\ \A c \in 1..Len(NodeAt(tpl, path).childNodes) :
        (c = 1 \/ walkErr = "") =>
            \E i \in 1..Len(walkLog) :
                walkLog[i].kind = "process" /\ walkLog[i].path = Append(path, c)

\* C10: the condition processor throws nothing; the node is removed, a
\* marker in its place, when the expression is empty, throws or is falsy;
\* the node is kept and its children processed when the value is truthy.
C10_ConditionNeverThrows ==
    \A j \in ConditionCalls :
        /\ walkLog[j].err = ""
        /\ (IsEmpty(j) \/ EvalThrows(j) \/ EvalFalsy(j)) => Removed(walkLog[j].path)
        /\ EvalTruthy(j) => Kept(walkLog[j].path)

\* The function that the expression evaluates to returns a truthy value.
CallPasses(j) ==
    CallFn(Evaluated(j).val).k = "ok" /\ Truthy(CallFn(Evaluated(j).val).val)

\* C10 as the code has it: a value that is a function is called, and it is
\* what the call returns that keeps the node (truthy) or removes it (falsy,
\* or the call throws); no error of the call is propagated either.
C10_ConditionCallsFunctions ==
    \A j \in ConditionCalls :
        /\ walkLog[j].err = ""
        /\ (IsEmpty(j) \/ EvalThrows(j) \/ EvalFalsy(j)) => Removed(walkLog[j].path)
        /\ (EvalTruthy(j) /\ ~EvalFunction(j)) => Kept(walkLog[j].path)
        /\ (EvalFunction(j) /\ CallPasses(j)) => Kept(walkLog[j].path)
        /\ (EvalFunction(j) /\ ~CallPasses(j)) => Removed(walkLog[j].path)

\* C10 witness: one condition whose evaluation throws removed its node, and
\* one whose value is a function that returns true kept its node.
C10_Witness ==
    \E j, k \in ConditionCalls :
        /\ EvalThrows(j)
        /\ Removed(walkLog[j].path)
        /\ EvalFunction(k)
        /\ CallPasses(k)
        /\ Kept(walkLog[k].path)

\* ------------------------------------ specification of the repeat processor

\* Longest array or object repeated over.
MaxItems == 3

\* The value of the item k (from 1) of the data, and the key of the
\* property k of the objects, which are not created in alphabetical order
ItemValue(k) == Str("v" \o NatStr(k))
ItemKey(k) == "p" \o NatStr(9 - k)

\* {array: [1,2,3]} and {object: {a:1, b:2, c:3}} of the tests, with n items
ArrayOf(n) == Arr([k \in 1..n |-> ItemValue(k)])
ObjectOf(n) ==
    ObjInOrder([k \in 1..n |-> ItemKey(k)],
               [name \in {ItemKey(k) : k \in 1..n} |->
                    ItemValue(CHOOSE k \in 1..n : ItemKey(k) = name)])

\* What tal.run(data) is given: items is an array, an object, a number, or
\* is missing
RepeatData ==
    {[n \in {"items"} |-> v] :
        v \in {ArrayOf(n) : n \in 0..MaxItems} \cup {ObjectOf(n) : n \in 0..MaxItems}
                \cup {Num("5")}}
        \cup {NoProps}

\* The texts of the repeated element
RepeatTexts ==
    {"", " ${repeat.foo.index}", " ${repeat.foo.odd}", " ${repeat.foo.end}", " ${repeat.foo.key}"}

\* The attributes the repeated element has besides tal:repeat
RepeatAttrs ==
    {<<>>, <<Attr("title", "${repeat.foo.number}")>>, <<Attr("class", "row")>>}

\* <li tal:repeat="foo items" ...>${foo}text</li><li>tail</li>
RepeatTemplate(attrs, text) ==
    DocumentFragment(
        <<Element("li", <<Attr("tal:repeat", "foo items")>> \o attrs,
                  <<TextNode("${foo}" \o text)>>),
          Element("li", <<>>, <<TextNode("tail")>>)>>)

RepeatTemplates == {RepeatTemplate(a, t) : a \in RepeatAttrs, t \in RepeatTexts}

InitRepeat ==
    /\ stack \in {<<Obj(d)>> : d \in RepeatData}
    /\ tpl \in RepeatTemplates
    /\ dom = NoNode
    /\ walkErr = ""
    /\ walkLog = <<>>
    /\ uniqueId = 1
    /\ TalesIdle
    /\ RegistryLoaded
    /\ Unbound
    /\ ScopeIdle

NextRepeat == RunCall

SpecRepeat == InitRepeat /\ [][NextRepeat]_vars

\* ------------------------------------------------------- claims on repeat

\* run() returned, without an error
RanWell == dom # NoNode /\ walkErr = ""

\* The pairs [key, val] the repeat went over
Repeated == RepeatValues(stack[1].p.items).val

\* The clones processed, in the order they were: places in the log
Clones == {j \in DOMAIN walkLog : walkLog[j].kind = "clone"}

\* An expression is worth value while the clone of the log entry j is processed
CloneSees(j, expression, value) ==
    With(Tales(<<expression>>, Append(walkLog[j].stack, Obj(NoProps))), LAMBDA seen :
        seen.k = "ok" /\ seen.val = value)
MetaSees(j, field, value) ==
    CloneSees(j, "repeat." \o walkLog[j].item \o "." \o field, value)

\* What stands where the repeated element stood in the output
RepeatOutput == SelectSeq(dom.childNodes,
                          LAMBDA n : n # Element("li", <<>>, <<TextNode("tail")>>))

C12_RepeatEnd ==
    RanWell =>
        \A j \in Clones :
            MetaSees(j, "end", Bool(walkLog[j].k = Len(Repeated) - 1))

\* ---------------------------- specification of attributes and of content

\* The longest list of pairs of tal:attributes
MaxPairs == 2

\* tal.run({yes: true, no: false, str: 'str', zero: 0, text: '${zero}!'})
AttrsData ==
    [n \in {"yes", "no", "str", "zero", "text"} |->
        CASE n = "yes" -> Bool(TRUE)
          [] n = "no" -> Bool(FALSE)
          [] n = "str" -> Str("str")
          [] n = "zero" -> Num("0")
          [] n = "text" -> Str("${zero}!")]

\* The pairs `name expression`: href is on the element, checked is not
AttrPairs ==
    [name : {"href", "checked"},
     exp : {"yes", "no", "nothing", "default", "str", "zero", "'lit'"}]

PairLists == UNION {[1..n -> AttrPairs] : n \in 0..MaxPairs}

\* The pairs of a list from the pair i on, joined by the separator
RECURSIVE ListText(_, _, _)
ListText(list, i, separator) ==
    IF i > Len(list) THEN ""
    ELSE list[i].name \o " " \o list[i].exp
            \o (IF i < Len(list) THEN separator ELSE "")
            \o ListText(list, i + 1, separator)

\* The attributes the element has besides the ones of the processors
OwnAttrs == <<Attr("href", "old"), Attr("title", "t")>>

\* tal:content on the element, or not
ContentAttrs == {<<>>, <<Attr("tal:content", "text")>>, <<Attr("tal:content", "default")>>}

\* <a href="old" title="t" tal:content=".." tal:attributes="..">${str}</a>
AttrsTemplate(content, list, separator) ==
    DocumentFragment(
        <<Element("a",
                  OwnAttrs \o content
                    \o (IF list = <<>> THEN <<>>
                        ELSE <<Attr("tal:attributes", ListText(list, 1, separator))>>),
                  <<TextNode("${str}")>>)>>)

AttrsTemplates ==
    {AttrsTemplate(c, l, sep) : c \in ContentAttrs, l \in PairLists, sep \in {"; ", ","}}

InitAttrs ==
    /\ stack = <<Obj(AttrsData)>>
    /\ tpl \in AttrsTemplates
    /\ dom = NoNode
    /\ walkErr = ""
    /\ walkLog = <<>>
    /\ uniqueId = 1
    /\ TalesIdle
    /\ RegistryLoaded
    /\ Unbound
    /\ ScopeIdle

NextAttrs == RunCall

SpecAttrs == InitAttrs /\ [][NextAttrs]_vars

\* ------------------------------------- claims on attributes and on content

\* The attributes after the pairs of the list from the pair i on are applied,
\* one after the other, each by the value of its expression
RECURSIVE PairsApplied(_, _, _)
PairsApplied(attributes, list, i) ==
    IF i > Len(list) THEN attributes
    ELSE With(Tales(<<list[i].exp>>, stack).val, LAMBDA value :
            PairsApplied(CASE value = Bool(TRUE) ->
                                SetAttribute(attributes, list[i].name, list[i].name)
                           [] value \in {Bool(FALSE), NOTHING} ->
                                RemoveAttribute(attributes, list[i].name)
                           [] value = DEFAULT -> attributes
                           [] OTHER -> SetAttribute(attributes, list[i].name, StringOf(value)),
                         list, i + 1))

\* The pairs [name, exp] a text lists, `;` or `,` between them and a space
\* between the name and the expression
RECURSIVE PairsIn(_)
PairsIn(text) ==
    IF text = "" THEN <<>>
    ELSE LET cut == FirstWhere(1, Len(text), LAMBDA k : Char(text, k) \in {";", ","})
             pair == SubSeq(text, 1, cut - 1)
             space == IndexIn(" ", pair, 1)
         IN  <<[name |-> SubSeq(pair, 1, space - 1), exp |-> SubSeq(pair, space + 1, Len(pair))]>>
                \o PairsIn(Trim(SubSeq(text, cut + 1, Len(text))))

\* The pairs that tal:attributes of the template lists
PairsGiven ==
    LET a == AttrIndex(tpl.childNodes[1].attributes, "tal:attributes")
    IN  IF a = 0 THEN <<>> ELSE PairsIn(tpl.childNodes[1].attributes[a].value)

\* C13: each pair of tal:attributes sets the attribute to its own name when
\* the value is true, removes it when the value is false or NOTHING, leaves
\* it as it was when the value is DEFAULT and sets it to the value otherwise;
\* the pairs of a list are applied one by one, from left to right.
C13_AttributesPairs ==
    RanWell => dom.childNodes[1].attributes = PairsApplied(OwnAttrs, PairsGiven, 1)

\* C13 witness: `href yes,checked 'lit'` set href to its own name and then
\* added checked with the value of the literal.
C13_Witness ==
    /\ RanWell
    /\ PairsGiven = <<[name |-> "href", exp |-> "yes"], [name |-> "checked", exp |-> "'lit'"]>>
    /\ dom.childNodes[1].attributes =
            <<Attr("href", "href"), Attr("title", "t"), Attr("checked", "lit")>>

\* C14: when a processor of a node returned false, process() is called on
\* no node below that node, whatever processors ran on the node after it; so
\* the text that tal:content put in the node is not interpolated.
C14_FalseSkipsChildren ==
    \A i, j \in DOMAIN walkLog :
        /\ walkLog[i].kind = "processor"
        /\ walkLog[i].ret = "false"
        /\ walkLog[j].kind = "process"
        => ~(IsPrefix(walkLog[i].path, walkLog[j].path)
                /\ Len(walkLog[j].path) > Len(walkLog[i].path))

\* ------------------------- specification of process() on processed trees

\* tal.run({foo: 'x'}), tal.run({foo: 0}) and tal.run({})
PlainData == {NoProps} \cup {[n \in {"foo"} |-> v] : v \in {Str("x"), Num("0")}}

\* The texts of the element: without a $, with a $ that starts nothing, with
\* an escaped expression, and with an expression
PlainTexts ==
    {"plain", "cost $5", "a $ b", "$", "{foo}", "$${foo}", "a$${foo}", "$${foo}b",
     "${foo}", "$$${foo}"}

\* The attributes of the element
PlainAttrs ==
    {<<>>, <<Attr("title", "t")>>, <<Attr("title", "5$")>>, <<Attr("title", "$${foo}")>>,
     <<Attr("title", "${foo}")>>, <<Attr("tal:condition", "foo")>>,
     <<Attr("tal:content", "foo")>>}

\* <p ...>text<!--note--></p>
PlainTemplate(attrs, text) ==
    DocumentFragment(<<Element("p", attrs, <<TextNode(text), Comment("note")>>)>>)

InitPlain ==
    /\ stack \in {<<Obj(d)>> : d \in PlainData}
    /\ tpl \in {PlainTemplate(a, t) : a \in PlainAttrs, t \in PlainTexts}
    /\ dom = NoNode
    /\ walkErr = ""
    /\ walkLog = <<>>
    /\ uniqueId = 1
    /\ TalesIdle
    /\ RegistryLoaded
    /\ Unbound
    /\ ScopeIdle

\* tal.process(dom): the tree that run() returned is processed again, in place
ProcessAgain ==
    /\ dom # NoNode
    /\ walkErr = ""
    /\ Ran(Process(dom, FALSE, Walker(0), <<>>))
    /\ UNCHANGED <<tpl, talesVars, registryVars, lastSet>>

NextPlain == RunCall \/ ProcessAgain

SpecPlain == InitPlain /\ [][NextPlain]_vars

\* ------------------------------------ claims on escapes and on idempotence

\* The text and the title of the element, in a tree
TextOf(tree) == tree.childNodes[1].childNodes[1].nodeValue
TitleOf(tree) == tree.childNodes[1].attributes[1].value
HasTitle(tree) ==
    /\ tree.childNodes[1].nodeType = 1
    /\ Len(tree.childNodes[1].attributes) = 1
    /\ tree.childNodes[1].attributes[1].name = "title"
HasText(tree) ==
    /\ tree.childNodes[1].nodeType = 1
    /\ Len(tree.childNodes[1].childNodes) = 2
    /\ tree.childNodes[1].childNodes[1].nodeType = 3

\* The texts in which $${foo} follows characters other than $
EscapedTexts == {"$${foo}", "a$${foo}", "$${foo}b"}

\* s without its character i
Without(s, i) == SubSeq(s, 1, i - 1) \o SubSeq(s, i + 1, Len(s))

\* C15 as the specification has it: $${foo} is not evaluated and is rendered
\* without the escaping $, as ${foo}, in a text and in an attribute.
C15_EscapeDropsDollar ==
    RanWell =>
        /\ (HasText(tpl) /\ HasText(dom) /\ TextOf(tpl) \in EscapedTexts) =>
                TextOf(dom) = Without(TextOf(tpl), IndexOf(TextOf(tpl), "$${", 0) + 1)
        /\ (HasTitle(tpl) /\ TitleOf(tpl) \in EscapedTexts) =>
                TitleOf(dom) = Without(TitleOf(tpl), IndexOf(TitleOf(tpl), "$${", 0) + 1)

\* C15, corrected: $${foo} is not evaluated and is rendered as it is, with
\* both $, in a text and in an attribute, whatever foo is.
C15_EscapeKept ==
    RanWell =>
        /\ (HasText(tpl) /\ HasText(dom) /\ TextOf(tpl) \in EscapedTexts) =>
                TextOf(dom) = TextOf(tpl)
        /\ (HasTitle(tpl) /\ TitleOf(tpl) \in EscapedTexts) =>
                TitleOf(dom) = TitleOf(tpl)

\* C15 witness: $${foo} went through run() with foo bound to 'x', in the
\* text and in the title, and both are as they were.
C15_Witness ==
    /\ RanWell
    /\ HasName(stack[1], "foo")
    /\ HasTitle(tpl)
    /\ TitleOf(tpl) = "$${foo}"
    /\ TextOf(tpl) = "$${foo}"
    /\ TextOf(dom) = "$${foo}"
    /\ TitleOf(dom) = "$${foo}"

\* A tree without a processor attribute and without ${ in a text or in the
\* value of an attribute
RECURSIVE PlainTree(_)
PlainTree(node) ==
    CASE node.nodeType = 3 -> IndexOf(node.nodeValue, "${", 0) = -1
      [] node.nodeType = 1 ->
            /\ \A i \in 1..Len(node.attributes) :
                    /\ IndexOf(node.attributes[i].name, "tal:", 0) # 0
                    /\ IndexOf(node.attributes[i].value, "${", 0) = -1
            /\ \A i \in 1..Len(node.childNodes) : PlainTree(node.childNodes[i])
      [] node.nodeType = 11 ->
            \A i \in 1..Len(node.childNodes) : PlainTree(node.childNodes[i])
      [] OTHER -> TRUE

\* C16: process() on a tree without processor attributes and without ${...}
\* leaves the tree as it is, the first time (run() on such a template) and
\* every time after it (process() on the tree that run() returned).
C16_PlainTreeUnchanged ==
    [][/\ (dom = NoNode /\ PlainTree(tpl)) => dom' = tpl
       /\ (dom # NoNode /\ PlainTree(dom)) => dom' = dom]_vars

\* C16 witness: a tree that run() made plain was processed again (nothing
\* was interpolated in the last pass, and the template had an expression).
C16_Witness ==
    /\ RanWell
    /\ PlainTree(dom)
    /\ ~PlainTree(tpl)
    /\ \A i \in DOMAIN walkLog : walkLog[i].kind = "process"

\* ------------------------------- specification of ExpressionParser.tales()

\* The positions tales() is called at: 0..MaxStart
MaxStart == 1

\* The texts given to new ExpressionParser(): pipes single and doubled, at
\* the top level, in quotes and in brackets; quotes doubled, closed and left
\* open; brackets closed, left open and closed once too often; no
\* expression; white space inside the alternatives
ParseTexts ==
    {"a || b", "a | b", "a||b", "a|b", "'a|b'", "\"a | b\"", "(a | b)", "[a|b]",
     "{a | b}", "a | | b", "a ||| b", "a | b | c", "a || b | c", "f(a | b) | c",
     "a \\| b", "'a' | b", "| a", "a |",
     "'it''s'", "'escaped''quote'", "'x'", "''", "str", "'it' | str",
     "missing | 'it''s'",
     "'un", "\"un", "(a", "[a", "{a", "(a]", "a)", ")", "(a))", "(')", "'a\\'b'",
     "", " ", ";", ", x", "a; b", "a, b", "a 'un", "str | 'un", "a | (b",
     "'a' 'b'", "a b",
     "'a b' | c", "a | 'b c'", " 'a  b' ", "f(a, b) | c", "a | 'b c' | d"}

\* The texts whose alternatives the model of the js modifier evaluates
EvalTexts ==
    {"'it''s'", "'escaped''quote'", "'x'", "''", "str", "'it' | str",
     "missing | 'it''s'"}

InitParse ==
    /\ stack = <<Obj(TalesData)>>
    /\ parser \in {[exp |-> t, pos |-> p] : t \in ParseTexts, p \in 0..MaxStart}
    /\ parser.pos <= Len(parser.exp)
    /\ parsed = NotParsed
    /\ exps = <<>>
    /\ talesOut = NotRun
    /\ RegistryLoaded
    /\ Unbound
    /\ ScopeIdle
    /\ WalkIdle

\* What parser.tales() leaves: the list it returned, or null, and the position
TalesReturned(r) ==
    /\ parsed' = [k |-> IF r.ok THEN "list" ELSE "null", val |-> r.val, from |-> parser.pos]
    /\ parser' = [parser EXCEPT !.pos = r.pos]

\* parser.tales()
ParserTalesCall ==
    /\ parsed = NotParsed
    /\ TalesReturned(ParserTales(parser.exp, parser.pos))
    /\ UNCHANGED <<stack, exps, talesOut, registryVars, lastSet, walkVars, bindings>>

\* tal.tales(list), list being what parser.tales() returned
TalesOfParsed ==
    /\ parsed.k = "list"
    /\ parsed.from = 0
    /\ parser.exp \in EvalTexts
    /\ talesOut = NotRun
    /\ exps' = parsed.val
    /\ talesOut' = Tales(parsed.val, stack)
    /\ UNCHANGED <<stack, parser, parsed, registryVars, lastSet, walkVars, bindings>>

NextParse == ParserTalesCall \/ TalesOfParsed

SpecParse == InitParse /\ [][NextParse]_vars

\* ------------------------------------------- claims on the parser's tales()

\* The text that tales() was given, and the part of it that tales() read
Given == SubSeq(parser.exp, parsed.from + 1, Len(parser.exp))
Scanned == SubSeq(parser.exp, parsed.from + 1, parser.pos)

Openers == {"(", "{", "["}
Closers == {")", "}", "]"}
Quotes == {"'", "\""}

\* A text read character by character up to the character n, a backslash
\* taking the next character with it: the quote that is open, the brackets
\* that are open, and the pipes met outside quotes and brackets that are not
\* doubled (a pipe and the pipe right after it are one doubled pipe).
RECURSIVE ReadTo(_, _, _, _)
ReadTo(text, i, n, st) ==
    IF i > n THEN st
    ELSE LET c == Char(text, i)
         IN  CASE c = "\\" -> ReadTo(text, i + 2, n, st)
               [] c \in Quotes ->
                    ReadTo(text, i + 1, n,
                           [st EXCEPT !.quoted = IF @ = "" THEN c ELSE IF @ = c THEN "" ELSE @])
               [] c \in Openers /\ st.quoted = "" ->
                    ReadTo(text, i + 1, n, [st EXCEPT !.depth = @ + 1])
               [] c \in Closers /\ st.quoted = "" ->
                    ReadTo(text, i + 1, n, [st EXCEPT !.depth = @ - 1])
               [] c = "|" /\ st.quoted = "" /\ st.depth = 0 ->
                    IF Substr(text, i, 1) = "|" THEN ReadTo(text, i + 2, n, st)
                    ELSE ReadTo(text, i + 1, n, [st EXCEPT !.pipes = @ + 1])
               [] OTHER -> ReadTo(text, i + 1, n, st)

ReadUpTo(text, n) == ReadTo(text, 1, n, [quoted |-> "", depth |-> 0, pipes |-> 0])

\* A quote is left open or the brackets do not balance at the end of text
Unclosed(text) == ReadUpTo(text, Len(text)).quoted # "" \/ ReadUpTo(text, Len(text)).depth # 0

\* The text starts, after blanks, with a quote or a bracket that is open
\* from there to the end of the text
NeverCloses(text) ==
    LET i == SkipSpaces(text, 1)
    IN  /\ i <= Len(text)
        /\ Char(text, i) \in Openers \cup Quotes
        /\ \A n \in i..Len(text) :
                ReadUpTo(text, n).quoted # "" \/ ReadUpTo(text, n).depth > 0

\* The text holds no expression: it is blank up to its end, or up to a
\* semicolon, a comma or a closing bracket
NoExpression(text) ==
    LET i == SkipSpaces(text, 1)
    IN  i > Len(text) \/ Char(text, i) \in {";", ","} \cup Closers

\* C18: tales() on `a || b` returns one alternative, which holds the pipe;
\* and the alternatives returned are never more than one more than the
\* single pipes read outside quotes and brackets, so that a doubled pipe, a
\* pipe in quotes and a pipe in brackets start none.
C18_DoubledPipe ==
    parsed.k = "list" =>
        /\ Len(parsed.val) <= 1 + ReadUpTo(Scanned, Len(Scanned)).pipes
        /\ (parser.exp = "a || b" /\ parsed.from = 0) =>
                /\ Len(parsed.val) = 1
                /\ IndexIn("|", parsed.val[1], 1) > 0

\* C18 witness: `a || b` was read to its end and made one alternative
C18_Witness ==
    /\ parsed.k = "list"
    /\ parsed.from = 0
    /\ parser.exp = "a || b"
    /\ parser.pos = Len(parser.exp)
    /\ parsed.val = <<"a || b">>

\* C19: tales() on 'it''s' returns one alternative, and the value of that
\* alternative is the string it's: the doubled quote stands for one quote.
C19_DoubledQuote ==
    (parsed.from = 0 /\ parser.exp \in {"'it''s'", "'escaped''quote'"}) =>
        /\ parsed.k = "list" => Len(parsed.val) = 1
        /\ talesOut.k # "none" =>
                /\ talesOut.k = "ok"
                /\ talesOut.val = Str(IF parser.exp = "'it''s'" THEN "it's"
                                      ELSE "escaped'quote")

PipePlaces(text) ==
    {i \in 1..Len(text) :
        /\ Char(text, i) = "|"
        /\ ReadUpTo(text, i).pipes = ReadUpTo(text, i - 1).pipes + 1}

\* The k-th of these places; 0 before the first, Len(text) + 1 after the last
PipePlace(text, k) ==
    IF k = 0 THEN 0
    ELSE IF k > Cardinality(PipePlaces(text)) THEN Len(text) + 1
    ELSE CHOOSE p \in PipePlaces(text) :
            Cardinality({q \in PipePlaces(text) : q <= p}) = k

\* The k-th segment of text: what stands between two of these pipes
Segment(text, k) == SubSeq(text, PipePlace(text, k - 1) + 1, PipePlace(text, k) - 1)

\* C29: every alternative that tales() returns is its segment of the text
\* read, without the white space before and after it and with the white
\* space inside it, wherever the alternative stands in the chain.
C29_AlternativesTrimmed ==
    (parsed.k = "list" /\ Len(parsed.val) = Cardinality(PipePlaces(Scanned)) + 1) =>
        \A k \in 1..Len(parsed.val) : parsed.val[k] = Trim(Segment(Scanned, k))

\* ------------------------------ specification of define with several names

\* The definitions of one tal:define are at most MaxDefs
MaxDefs == 3

\* The names defined, the first definition defining the first one
DefNames == "abcdef"

\* The expressions of the definitions
DefExps == {"nothing", "1", "'x'", "'y'"}

DefLists == UNION {[1..n -> DefExps] : n \in 1..MaxDefs}

\* The value of the attribute: `a 1; b nothing; c 'x'`
RECURSIVE DefText(_, _, _)
DefText(list, i, separator) ==
    IF i > Len(list) THEN ""
    ELSE Char(DefNames, i) \o " " \o list[i]
            \o (IF i < Len(list) THEN separator ELSE "")
            \o DefText(list, i + 1, separator)

\* The text of the child: every name, or none where the name is not bound
RECURSIVE DefChild(_, _)
DefChild(n, i) ==
    IF i > n THEN ""
    ELSE "${" \o Char(DefNames, i) \o " | 'none'}" \o DefChild(n, i + 1)

\* <div tal:define="a 1; b nothing">${a | 'none'}${b | 'none'}</div>
DefTemplate(list, separator) ==
    DocumentFragment(
        <<Element("div", <<Attr("tal:define", DefText(list, 1, separator))>>,
                  <<TextNode(DefChild(Len(list), 1))>>)>>)

InitDefine ==
    /\ stack = <<Obj(NoProps)>>
    /\ tpl \in {DefTemplate(list, separator) : list \in DefLists, separator \in {";", "; "}}
    /\ dom = NoNode
    /\ walkErr = ""
    /\ walkLog = <<>>
    /\ uniqueId = 1
    /\ TalesIdle
    /\ RegistryLoaded
    /\ Unbound
    /\ ScopeIdle

NextDefine == RunCall

SpecDefine == InitDefine /\ [][NextDefine]_vars

\* ------------------------------------------------------- claims on define

\* The list of expressions that the template was made of
DefGiven ==
    CHOOSE list \in DefLists :
        \E separator \in {";", "; "} : tpl = DefTemplate(list, separator)

\* What the child shows when every definition but those of nothing is bound
RECURSIVE DefShown(_, _)
DefShown(list, i) ==
    IF i > Len(list) THEN ""
    ELSE (CASE list[i] = "nothing" -> "none"
            [] list[i] = "1" -> "1"
            [] OTHER -> SubSeq(list[i], 2, Len(list[i]) - 1))
            \o DefShown(list, i + 1)

\* C30: a define one of whose definitions evaluates to nothing throws no
\* error, binds the names of the other definitions, those before it and
\* those after it, leaves the name of that definition unbound, and the
\* children of the node are processed.
C30_DefineNothing ==
    (dom # NoNode /\ \E i \in DOMAIN DefGiven : DefGiven[i] = "nothing") =>
        /\ walkErr = ""
        /\ dom.childNodes[1].childNodes = <<TextNode(DefShown(DefGiven, 1))>>

\* ------------------------------- specification of the order of processors

\* tpl.run({foo: 'z', zero: 0, items: ['a', 'b'], frag: <b>B</b>})
OrderData ==
    [n \in {"foo", "zero", "items", "frag"} |->
        CASE n = "foo" -> Str("z")
          [] n = "zero" -> Num("0")
          [] n = "items" -> Arr(<<Str("a"), Str("b")>>)
          [] n = "frag" -> FragmentValue(<<Element("b", <<>>, <<TextNode("B")>>)>>)]

\* How many processor attributes the outer element has at most
MaxProcessors == 2

\* The expressions each processor attribute of the outer element may have;
\* NoAttr stands for the attribute being absent
NoAttr == "-"
OrderChoices ==
    [n \in {"define", "condition", "repeat", "content", "replace", "attributes",
            "omit-tag"} |->
        CASE n = "define" -> {NoAttr, "x foo"}
          [] n = "condition" -> {NoAttr, "foo", "zero"}
          [] n = "repeat" -> {NoAttr, "it items"}
          [] n = "content" -> {NoAttr, "foo", "default"}
          [] n = "replace" -> {NoAttr, "foo", "zero", "nothing", "default", "frag",
                            "missing.path"}
          [] n = "attributes" -> {NoAttr, "title foo"}
          [] n = "omit-tag" -> {NoAttr, "", "zero"}]

\* The processors in the order the documentation gives
DocumentedOrder ==
    <<"define", "condition", "repeat", "content", "replace", "attributes", "omit-tag">>

\* The attributes of the outer element, written in the documented order
RECURSIVE OrderAttrs(_, _)
OrderAttrs(choice, i) ==
    IF i > Len(DocumentedOrder) THEN <<>>
    ELSE (IF choice[DocumentedOrder[i]] = NoAttr THEN <<>>
          ELSE <<Attr("tal:" \o DocumentedOrder[i], choice[DocumentedOrder[i]])>>)
            \o OrderAttrs(choice, i + 1)

\* <div ...>${foo}<i></i></div><p>${foo}</p>
OrderTemplate(attrs) ==
    DocumentFragment(
        <<Element("div", attrs,
                  <<TextNode("${foo}"), Element("i", <<>>, <<>>)>>),
          Element("p", <<>>, <<TextNode("${foo}")>>)>>)

OrderTemplates ==
    {OrderTemplate(OrderAttrs(c, 1)) :
        c \in {f \in [DOMAIN OrderChoices ->
                            UNION {OrderChoices[n] : n \in DOMAIN OrderChoices}] :
                    /\ \A n \in DOMAIN OrderChoices : f[n] \in OrderChoices[n]
                    /\ Cardinality({n \in DOMAIN OrderChoices : f[n] # NoAttr})
                            <= MaxProcessors}}

InitOrder ==
    /\ stack = <<Obj(OrderData)>>
    /\ tpl \in OrderTemplates
    /\ dom = NoNode
    /\ walkErr = ""
    /\ walkLog = <<>>
    /\ uniqueId = 1
    /\ TalesIdle
    /\ RegistryLoaded
    /\ Unbound
    /\ ScopeIdle

NextOrder == RunCall

SpecOrder == InitOrder /\ [][NextOrder]_vars

\* --------------------------------------- claims on the order of processors

\* The calls of processors the walk made, as places of the log
ProcessorCalls == {i \in 1..Len(walkLog) : walkLog[i].kind = "processor"}

\* The place of a processor in the documented order
DocumentedRank(procname) ==
    CHOOSE i \in 1..Len(DocumentedOrder) : DocumentedOrder[i] = procname

\* C21: the processors of one node are applied in the documented order
\* define, condition, repeat, content, replace, attributes, omit-tag; on a
\* node with both a content and a replace attribute, content runs before
\* replace
C21_DocumentedOrder ==
    Walked =>
        \A i, j \in ProcessorCalls :
            i < j /\ walkLog[i].path = walkLog[j].path
                => DocumentedRank(walkLog[i].procname) < DocumentedRank(walkLog[j].procname)

\* The calls that answered null, a node or a fragment
ReplacingCalls ==
    {i \in ProcessorCalls : walkLog[i].err = "" /\ walkLog[i].ret \in {"null", "node"}}

\* path is the path of a node below the node of path p
Below(path, p) == Len(path) > Len(p) /\ SubSeq(path, 1, Len(p)) = p

IsSuffix(p, q) == Len(p) <= Len(q) /\ SubSeq(q, Len(q) - Len(p) + 1, Len(q)) = p

\* node is the marker comment of the given type left by the processor
IsMarker(node, type, procname) ==
    /\ node.nodeType = 8
    /\ IsPrefix("DOMTAL:" \o type \o " id=", node.nodeValue)
    /\ IsSuffix(" processor=" \o procname, node.nodeValue)

\* nodes is what stands for the node after the call i of the log
StandsFor(nodes, i) ==
    LET call == walkLog[i]
    IN  CASE call.ret = "null" \/ (call.value.nodeType = 11 /\ call.value.childNodes = <<>>) ->
                Len(nodes) = 1 /\ IsMarker(nodes[1], "MARK", call.procname)
          [] call.ret = "node" /\ call.value.nodeType = 11 /\ call.value.childNodes # <<>> ->
                /\ Len(nodes) = Len(call.value.childNodes) + 2
                /\ IsMarker(nodes[1], "BEGIN", call.procname)
                /\ SubSeq(nodes, 2, Len(nodes) - 1) = call.value.childNodes
                /\ IsMarker(nodes[Len(nodes)], "END", call.procname)
          [] OTHER -> nodes = <<call.value>>

\* C23: when a processor answers null or a node or a fragment, a marker or
\* the replacement stands where the node stood (seen on the outer element of
\* the template, whose place is before the last element), no other processor
\* of the node is called afterwards, and nothing below the node is visited
\* afterwards
C23_ReplacedStops ==
    Walked =>
        \A i \in ReplacingCalls :
            /\ \A j \in ProcessorCalls : j > i => walkLog[j].path # walkLog[i].path
            /\ \A j \in 1..Len(walkLog) : j > i => ~Below(walkLog[j].path, walkLog[i].path)
            /\ walkLog[i].path = <<1>> /\ walkErr = ""
                => StandsFor(SubSeq(dom.childNodes, 1, Len(dom.childNodes) - 1), i)

\* The outer element has a tal:condition that removes it, a tal:attributes
\* and children
C23_Witness ==
    /\ Walked
    /\ walkErr = ""
    /\ \E i \in ReplacingCalls :
        /\ walkLog[i].path = <<1>>
        /\ walkLog[i].procname = "condition"
        /\ walkLog[i].ret = "null"
    /\ AttrIndex(tpl.childNodes[1].attributes, "tal:attributes") # 0
    /\ tpl.childNodes[1].childNodes # <<>>

\* --------------------------------------- specification of nested repeats

\* tpl.run({rows: [['a', 'b'], ['c']]})
NestedData ==
    [n \in {"rows"} |-> Arr(<<Arr(<<Str("a"), Str("b")>>), Arr(<<Str("c")>>)>>)]

\* The information of a loop the templates read
LoopInfos == {"index", "number", "length", "key", "odd", "even", "start"}

\* The expression repeat.<name>.<info>
LoopExp(name, info) == "repeat." \o name \o "." \o info

\* What the tal:content of the inner element reads
NestedTexts ==
    {"cell", "row.length"} \cup {LoopExp("cell", info) : info \in LoopInfos}
        \cup {LoopExp("row", info) : info \in LoopInfos}

\* What the title of the outer element reads
NestedOuterTexts ==
    {"", "${repeat.row.index}", "${repeat.row.number}", "${repeat.row.end}",
     "${repeat.row.odd}", "${row.length}"}

\* <ul tal:repeat="row rows" title="...">
\*   <li tal:repeat="cell row" tal:content="..."></li>
\* </ul>
NestedTemplate(outer, inner) ==
    DocumentFragment(
        <<Element("ul", <<Attr("tal:repeat", "row rows")>>
                            \o (IF outer = "" THEN <<>> ELSE <<Attr("title", outer)>>),
                  <<Element("li", <<Attr("tal:repeat", "cell row"),
                                    Attr("tal:content", inner)>>,
                            <<>>)>>)>>)

NestedTemplates == {NestedTemplate(o, i) : o \in NestedOuterTexts, i \in NestedTexts}

InitNested ==
    /\ stack = <<Obj(NestedData)>>
    /\ tpl \in NestedTemplates
    /\ dom = NoNode
    /\ walkErr = ""
    /\ walkLog = <<>>
    /\ uniqueId = 1
    /\ TalesIdle
    /\ RegistryLoaded
    /\ Unbound
    /\ ScopeIdle

NextNested == RunCall

SpecNested == InitNested /\ [][NextNested]_vars

\* ------------------------------------------------ claims on nested repeats

\* The calls of content on the inner clones, as places of the log: the path
\* of the clone k of the inner element in the clone j of the outer one is
\* <<1, -(j + 1), 1, -(k + 1)>>
InnerContents ==
    {i \in ProcessorCalls : walkLog[i].procname = "content" /\ Len(walkLog[i].path) = 4}
OuterIteration(i) == 0 - walkLog[i].path[2] - 1
InnerIteration(i) == 0 - walkLog[i].path[4] - 1

\* String(repeat.<name>.<info>) in the iteration k of an array of len items
LoopInfo(info, k, len) ==
    CASE info = "index" -> NatStr(k)
      [] info = "number" -> NatStr(k + 1)
      [] info = "start" -> IF k = 0 THEN "true" ELSE "false"
      [] info = "odd" -> IF k % 2 = 1 THEN "true" ELSE "false"
      [] info = "even" -> IF k % 2 = 0 THEN "true" ELSE "false"
      [] info = "length" -> NatStr(len)
      [] info = "key" -> NatStr(k)

\* The text the content processor gave the node at the call i of the log
ContentText(i) ==
    IF walkLog[i].node.childNodes = <<>> THEN ""
    ELSE walkLog[i].node.childNodes[1].nodeValue

\* C22: while a clone of the inner repeat is processed, repeat.<outer>.* is
\* the information of the current iteration of the enclosing repeat and
\* repeat.<inner>.* the one of the inner repeat; no error is raised
C22_NestedLoopInfo ==
    Walked =>
        /\ walkErr = ""
        /\ \A i \in InnerContents :
            \A info \in LoopInfos :
                /\ walkLog[i].exp = LoopExp("row", info)
                    => ContentText(i) = LoopInfo(info, OuterIteration(i), 2)
                /\ walkLog[i].exp = LoopExp("cell", info)
                    => ContentText(i)
                            = LoopInfo(info, InnerIteration(i), 2 - OuterIteration(i))

\* The same for the information of the inner repeat only.
NestedInnerInfo ==
    Walked =>
        \A i \in InnerContents :
            \A info \in LoopInfos :
                walkLog[i].exp = LoopExp("cell", info)
                    => /\ walkLog[i].err = ""
                       /\ ContentText(i)
                            = LoopInfo(info, InnerIteration(i), 2 - OuterIteration(i))

\* ------------------------------------- specification of the bound renderers

\* tal.set({v: 'z', list: ['a', 'b']})
BoundData ==
    [n \in {"v", "list"} |->
        IF n = "v" THEN Str("z") ELSE Arr(<<Str("a"), Str("b")>>)]

\* The elements the templates start with
BoundElements ==
    {Element("div", <<Attr("tal:content", "v")>>, <<TextNode("old")>>),
     Element("div", <<Attr("tal:condition", "v")>>,
             <<Element("b", <<Attr("tal:content", "v")>>, <<>>)>>),
     Element("li", <<Attr("tal:repeat", "item list")>>, 
             <<TextNode("${item}${repeat.item.index}${v}")>>),
     Element("div", <<Attr("tal:omit-tag", "v")>>, <<TextNode("x")>>),
     Element("div", <<Attr("tal:replace", "v")>>, <<TextNode("old")>>),
     Element("div", <<>>, <<TextNode("${v}")>>)}

\* What follows the element in every template
BoundTail == Element("p", <<>>, <<TextNode("tail")>>)

BoundTemplates == {DocumentFragment(<<e, BoundTail>>) : e \in BoundElements}

\* The calls of bound renderers that are followed
MaxCalls == 2

\* No bound renderer ran yet
NoCall == [k |-> 0]

InitBound ==
    /\ stack = <<Obj(BoundData)>>
    /\ tpl \in BoundTemplates
    /\ dom = NoNode
    /\ walkErr = ""
    /\ walkLog = <<>>
    /\ uniqueId = 1
    /\ bindings \in {[tracker |-> "bind", observed |-> o, list |-> <<>>, calls |-> 0,
                      last |-> NoCall] : o \in SUBSET {"v", "list"}}
    /\ TalesIdle
    /\ ScopeIdle
    /\ processors = BuiltinList
    /\ regs = {Builtins[i] : i \in 1..Len(Builtins)}
    /\ nextGen = Len(Builtins) + 1
    /\ regOps = 0
    /\ nodeAttrs = <<>>
    /\ invoked = [invoked |-> <<>>, threw |-> FALSE]

\* The node holds the node that the bound renderer k has in its closure
RECURSIVE HasMarked(_, _)
HasMarked(node, k) ==
    \/ "bid" \in DOMAIN node /\ node.bid = k
    \/ "childNodes" \in DOMAIN node
        /\ \E i \in 1..Len(node.childNodes) : HasMarked(node.childNodes[i], k)

\* The nodes with new in the place of the node of the bound renderer k
RECURSIVE SwapIn(_, _, _)
RECURSIVE SwapUnder(_, _, _)
SwapIn(nodes, k, new) ==
    IF nodes = <<>> THEN <<>>
    ELSE (IF "bid" \in DOMAIN Head(nodes) /\ Head(nodes).bid = k THEN new
          ELSE <<SwapUnder(Head(nodes), k, new)>>) \o SwapIn(Tail(nodes), k, new)
SwapUnder(node, k, new) ==
    IF "childNodes" \in DOMAIN node THEN [node EXCEPT !.childNodes = SwapIn(@, k, new)]
    ELSE node

\* The walk of the bound renderer k: `this.stack = snapshot`, whose first
\* frame is the one of the instance, and render is given bound
Rerun(k) ==
    [Walker(bindings.calls + 1) EXCEPT
        !.stack = <<stack[1]>> \o Tail(bindings.list[k].snapshot),
        !.locals = [NoLocals EXCEPT !.bound = k]]

\* What the bound renderer k throws, r being what render answers:
\* node.parentNode is null once the node was taken out of its parent
RerunError(r, k) ==
    IF r.err # "" THEN r.err
    ELSE IF ~HasMarked(dom, k) /\ bindings.list[k].removed
    THEN "TypeError: node.parentNode is null"
    ELSE ""

\* The assignments of the bound renderer k, r being what render answers:
\* the stack is put back unless render threw, the node that render returned
\* takes the place of the node of the closure, in the tree or in what was
\* taken out of it, and becomes the node of the closure
Reran(r, k) ==
    /\ stack' = IF r.err # "" THEN r.w.stack ELSE [stack EXCEPT ![1] = r.w.stack[1]]
    /\ dom' = IF r.err = "" /\ HasMarked(dom, k)
              THEN SwapUnder(dom, k, <<Marked(r.nodes[1], k)>>)
              ELSE dom
    /\ walkLog' = r.w.log
    /\ uniqueId' = r.w.uniqueId
    /\ bindings' =
        [bindings EXCEPT
            !.list = IF r.err # "" THEN r.w.bound
                     ELSE [r.w.bound EXCEPT ![k].snapshot = r.w.stack],
            !.calls = @ + 1,
            !.last = [k |-> k, attached |-> HasMarked(dom, k), err |-> RerunError(r, k),
                      out |-> r.nodes, before |-> stack, made |-> Len(bindings.list),
                      rendered |-> Len(r.w.log) > 0]]

\* Bind calls a bound renderer: `newnode = backup.cloneNode(true);
\* cache.div.appendChild(newnode); ... newnode = this.render(newnode, bound)`
BoundCall ==
    /\ dom # NoNode
    /\ walkErr = ""
    /\ bindings.calls < MaxCalls
    /\ \E k \in 1..Len(bindings.list) :
        \E r \in {Render(bindings.list[k].backup, TRUE, Rerun(k), bindings.list[k].path)} :
            Reran(r, k)
    /\ UNCHANGED <<tpl, walkErr, talesVars, registryVars, lastSet>>

\* The page takes the node of a bound renderer out of its parent
DetachCall ==
    /\ dom # NoNode
    /\ \E k \in 1..Len(bindings.list) :
        /\ HasMarked(dom, k)
        /\ dom' = SwapUnder(dom, k, <<>>)
        /\ bindings' = [bindings EXCEPT !.list[k].removed = TRUE, !.last = NoCall]
    /\ UNCHANGED <<stack, tpl, walkErr, walkLog, uniqueId, talesVars, registryVars, lastSet>>

NextBound == RunCall \/ BoundCall \/ DetachCall

SpecBound == InitBound /\ [][NextBound]_vars

\* ------------------------------------------ claims on the bound renderers

\* The bound renderer that ran last
LastBound == bindings.list[bindings.last.k]

\* C24: a node has at most one bound renderer: one is set up only by a call
\* of render that was given none and collected dependencies, no two are set
\* up for the same node of the same run, and the run of a bound renderer
\* sets up none for its own node, however often it runs.
C24_OneBinding ==
    /\ \A i \in 1..Len(bindings.list) :
        /\ bindings.list[i].made = 0
        /\ bindings.list[i].deps # <<>>
        /\ \A j \in 1..Len(bindings.list) :
            (bindings.list[i].path = bindings.list[j].path
                /\ bindings.list[i].run = bindings.list[j].run) => i = j
    /\ bindings.last.k # 0 =>
        \A i \in (bindings.last.made + 1)..Len(bindings.list) :
            bindings.list[i].path # LastBound.path

\* The same bound renderer ran MaxCalls times and is still the only one
C24_Witness ==
    /\ bindings.calls = MaxCalls
    /\ Len(bindings.list) = 1
    /\ bindings.last.k = 1
    /\ bindings.last.attached
    /\ bindings.last.err = ""

\* C25: a bound renderer that runs while its node is out of the tree ends
\* without an error and without rendering.
C25_DetachedDisposes ==
    (bindings.last.k # 0 /\ ~bindings.last.attached) =>
        (bindings.last.err = "" /\ ~bindings.last.rendered)

\* C26: after the run of the bound renderer of the first element of the
\* template, what the run produced stands where the element stood, before
\* the paragraph that follows it, and nothing else does.
C26_Spliced ==
    (bindings.last.k # 0 /\ bindings.last.attached /\ bindings.last.err = ""
        /\ LastBound.path = <<1>>) =>
        InnerHTML(dom.childNodes) = InnerHTML(bindings.last.out) \o InnerHTML(<<BoundTail>>)

\* The text that the clone k of the repeated element shows
CloneText(k) == BoundData.list.items[k + 1].v \o NatStr(k) \o BoundData.v.v

\* C28: the run of the bound renderer of the text of the clone k of a
\* repeated element shows the item k and its index, and the scope stack
\* after a run is the one before it.
C28_SnapshotScope ==
    bindings.last.k # 0 =>
        /\ stack = bindings.last.before
        /\ \A k \in 0..1 :
            (LastBound.path = <<1, 0 - (k + 1), 1>> /\ bindings.last.err = "") =>
                bindings.last.out[1].nodeValue = CloneText(k)

====
